---- MODULE Spec2Model ----
(***************************************************************************)
(* The cart discount allocation engine run() of                            *)
(* extensions/conditional-discount-function/src/run.js as a state machine: *)
(* one invocation walks Parse -> Classify -> Gate -> Select and ends in a  *)
(* returned result or in a thrown exception.                               *)
(*                                                                         *)
(* JavaScript values are tagged records JsValue: t is the type tag, s the   *)
(* string, a the array of strings.  A finite Number is the double          *)
(* n * m * 2^e: an integer of 31 bits is held in n (m is 1, e is 0), any    *)
(* other double has its sign in n and its odd mantissa in m, a natural      *)
(* number of any size.  -0, NaN and the infinities are Numbers whose s     *)
(* names them.                                                             *)
(***************************************************************************)
EXTENDS Integers, Sequences, FiniteSets, TLC

\* ------------------------------------------------------------------ bounds

\* Most cart lines of an enumerated cart.
MaxLines == 2
\* Largest minProducts of an enumerated configuration.
MaxMin == 3
\* Largest maxDiscounted of an enumerated configuration.
MaxCap == 2
\* The invocations of run() that are logged in one session of the module.
MaxCalls == 3

\* ------------------------------------------------------- JavaScript values

Undefined == [t |-> "undefined", n |-> 0, m |-> <<>>, e |-> 0, s |-> "", a |-> <<>>]
Null == [t |-> "null", n |-> 0, m |-> <<>>, e |-> 0, s |-> "", a |-> <<>>]
\* The integer k as a Number.
Num(k) == [t |-> "number", n |-> k, m |-> <<1>>, e |-> 0, s |-> "", a |-> <<>>]
\* -0, which is 0 to all but Math.min and the sign of a sum.
MinusZero == [t |-> "number", n |-> 0, m |-> <<1>>, e |-> 0, s |-> "-0", a |-> <<>>]
NaN == [t |-> "number", n |-> 0, m |-> <<1>>, e |-> 0, s |-> "NaN", a |-> <<>>]
PlusInfinity ==
  [t |-> "number", n |-> 0, m |-> <<1>>, e |-> 0, s |-> "Infinity", a |-> <<>>]
MinusInfinity ==
  [t |-> "number", n |-> 0, m |-> <<1>>, e |-> 0, s |-> "-Infinity", a |-> <<>>]
Str(x) == [t |-> "string", n |-> 0, m |-> <<>>, e |-> 0, s |-> x, a |-> <<>>]
Arr(xs) == [t |-> "array", n |-> 0, m |-> <<>>, e |-> 0, s |-> "", a |-> xs]

IsNaN(x) == x.s = "NaN"
IsFinite(x) == x.s \in {"", "-0"}

\* ToBoolean: what `!v`, `v ? :`, `v && ...` and `v || ...` test.
Truthy(v) ==
  CASE v.t = "undefined" -> FALSE
    [] v.t = "null" -> FALSE
    [] v.t = "number" -> v.n # 0 \/ v.s \in {"Infinity", "-Infinity"}
    [] v.t = "string" -> v.s # ""
    [] OTHER -> TRUE

\* A destructuring default `{ f = d } = config`: d replaces undefined only.
Default(v, d) == IF v.t = "undefined" THEN d ELSE v

\* v === "x" for a string literal x.
StrictEq(v, x) == v.t = "string" /\ v.s = x

\* ------------------------------------------------ natural numbers of any size

Abs(k) == IF k < 0 THEN 0 - k ELSE k
Sgn(k) == IF k < 0 THEN 0 - 1 ELSE IF k > 0 THEN 1 ELSE 0
Min(x, y) == IF x < y THEN x ELSE y
Max(x, y) == IF x > y THEN x ELSE y

PowersOfTwo ==
  <<1, 2, 4, 8, 16, 32, 64, 128, 256, 512, 1024, 2048, 4096, 8192, 16384, 32768,
    65536, 131072, 262144, 524288, 1048576, 2097152, 4194304, 8388608, 16777216,
    33554432, 67108864, 134217728, 268435456, 536870912, 1073741824>>

\* 2^k for k in 0..30.
TwoTo(k) == PowersOfTwo[k + 1]

\* A natural number of any size is the sequence of its limbs: its digits in
\* base 2^15, the lowest first and the highest not 0; <<>> is 0.  No operator
\* on them goes limb by limb: a carry is found by looking at the limbs below,
\* a sum of many terms by halving, so that the depth of an evaluation does
\* not grow with the size of the numbers.
Base == TwoTo(15)
LimbBits == CHOOSE b \in 1..30 : TwoTo(b) = Base

\* Limb i of x, 0 where x has none.
Limb(x, i) == IF 1 <= i /\ i <= Len(x) THEN x[i] ELSE 0

\* The zero limbs on top of x.
ZerosOnTop(x) ==
  CHOOSE d \in 0..Len(x) :
    /\ d = Len(x) \/ x[Len(x) - d] # 0
    /\ \A j \in 1..d : x[Len(x) + 1 - j] = 0

\* The highest limb of x that is not 0, or 0.
HighLimb(x) == Len(x) - ZerosOnTop(x)

\* The limbs x without the zeros on top.
BigTrim(x) == SubSeq(x, 1, HighLimb(x))

\* The natural number k as limbs.
BigOf(k) == BigTrim(<<k % Base, (k \div Base) % Base, k \div (Base * Base)>>)

\* The limbs x, below 2^31, as a number.
BigToInt(x) == Limb(x, 1) + Base * Limb(x, 2) + Base * Base * Limb(x, 3)

\* x and y of as many limbs, compared at the highest limb they differ in.
CmpAt(x, y, i) == IF Limb(x, i) < Limb(y, i) THEN 0 - 1 ELSE 1

\* The limbs on top of x and y, of as many limbs, that are the same.
SameOnTop(x, y) ==
  CHOOSE d \in 0..Len(x) :
    /\ d = Len(x) \/ x[Len(x) - d] # y[Len(x) - d]
    /\ \A j \in 1..d : x[Len(x) + 1 - j] = y[Len(x) + 1 - j]

CmpBelow(x, y, same) == IF same = Len(x) THEN 0 ELSE CmpAt(x, y, Len(x) - same)

\* -1, 0 or 1 as x is below, equal to or above y.
BigCmp(x, y) ==
  IF Len(x) # Len(y) THEN (IF Len(x) < Len(y) THEN 0 - 1 ELSE 1)
  ELSE CmpBelow(x, y, SameOnTop(x, y))

\* The limbs just below limb i whose sum is full, Base - 1: a carry goes
\* through them.
FullBelow(x, y, i) ==
  CHOOSE d \in 0..(i - 1) :
    /\ d = i - 1 \/ Limb(x, i - 1 - d) + Limb(y, i - 1 - d) # Base - 1
    /\ \A j \in 1..d : Limb(x, i - j) + Limb(y, i - j) = Base - 1

CarryPast(x, y, j) == j >= 1 /\ Limb(x, j) + Limb(y, j) >= Base

\* The sum of the limbs below i carries into limb i: the first limb below
\* the full ones overflows.
CarryInto(x, y, i) == CarryPast(x, y, i - 1 - FullBelow(x, y, i))

\* x + y
BigAdd(x, y) ==
  BigTrim([i \in 1..(Max(Len(x), Len(y)) + 1) |->
             (Limb(x, i) + Limb(y, i) + (IF CarryInto(x, y, i) THEN 1 ELSE 0))
               % Base])

\* The limbs just below limb i that are the same in x and y: a borrow goes
\* through them.
SameBelow(x, y, i) ==
  CHOOSE d \in 0..(i - 1) :
    /\ d = i - 1 \/ Limb(x, i - 1 - d) # Limb(y, i - 1 - d)
    /\ \A j \in 1..d : Limb(x, i - j) = Limb(y, i - j)

BorrowPast(x, y, j) == j >= 1 /\ Limb(x, j) < Limb(y, j)

\* The difference of the limbs below i borrows from limb i.
BorrowFrom(x, y, i) == BorrowPast(x, y, i - 1 - SameBelow(x, y, i))

\* x - y, where y is not above x.
BigSub(x, y) ==
  BigTrim([i \in 1..Len(x) |->
             (x[i] - Limb(y, i) - (IF BorrowFrom(x, y, i) THEN 1 ELSE 0) + Base)
               % Base])

\* x * k for a factor k below 2^15: the low halves of the products of the
\* limbs, and their high halves one limb up.
BigMulSmall(x, k) ==
  BigAdd([i \in 1..Len(x) |-> (x[i] * k) % Base],
         [i \in 1..(Len(x) + 1) |-> IF i = 1 THEN 0 ELSE (x[i - 1] * k) \div Base])

\* x * Base^j
ShiftLimbs(x, j) == IF Len(x) = 0 THEN <<>> ELSE [i \in 1..j |-> 0] \o x

RECURSIVE RowSum(_, _, _, _)
\* The sum of the rows x * y[j] * Base^(j - 1) for j in a..b.
RowSum(x, y, a, b) ==
  IF a = b THEN ShiftLimbs(BigMulSmall(x, Limb(y, a)), a - 1)
  ELSE BigAdd(RowSum(x, y, a, a + (b - a) \div 2),
              RowSum(x, y, a + (b - a) \div 2 + 1, b))

\* x * y
BigMul(x, y) ==
  IF Len(x) = 0 \/ Len(y) = 0 THEN <<>> ELSE RowSum(x, y, 1, Len(y))

\* x * 2^b where the shift is by `limbs` limbs and b bits more, b below 15.
ShiftedLeft(x, limbs, b) ==
  BigTrim([j \in 1..(Len(x) + limbs + 1) |->
             IF j <= limbs THEN 0
             ELSE (Limb(x, j - limbs) % TwoTo(LimbBits - b)) * TwoTo(b)
                  + Limb(x, j - limbs - 1) \div TwoTo(LimbBits - b)])

\* x * 2^k
BigShl(x, k) == IF k = 0 THEN x ELSE ShiftedLeft(x, k \div LimbBits, k % LimbBits)

\* x \div 2^b where the shift is by `limbs` limbs and b bits more.
ShiftedRight(x, limbs, b) ==
  BigTrim([j \in 1..(Len(x) - limbs) |->
             x[j + limbs] \div TwoTo(b)
             + (Limb(x, j + limbs + 1) % TwoTo(b)) * TwoTo(LimbBits - b)])

\* x \div 2^k
BigShr(x, k) ==
  IF k = 0 THEN x
  ELSE IF Len(x) <= k \div LimbBits THEN <<>>
  ELSE ShiftedRight(x, k \div LimbBits, k % LimbBits)

\* Bit i of x, the lowest being bit 0.
BigBit(x, i) == (Limb(x, i \div LimbBits + 1) \div TwoTo(i % LimbBits)) % 2

\* One of the k lowest bits of x is set.
LowBitsSet(x, k) ==
  \E i \in 1..Len(x) :
    \/ i <= k \div LimbBits /\ x[i] # 0
    \/ i = k \div LimbBits + 1 /\ x[i] % TwoTo(k % LimbBits) # 0

\* The bits of a limb: 0 for 0, 3 for 4..7.
BitLenInt(k) ==
  IF k = 0 THEN 0 ELSE CHOOSE b \in 1..LimbBits : TwoTo(b - 1) <= k /\ k < TwoTo(b)

\* The bits of x.
BitLen(x) ==
  IF Len(x) = 0 THEN 0 ELSE LimbBits * (Len(x) - 1) + BitLenInt(Limb(x, Len(x)))

\* The zero bits below the lowest set bit of a limb that is not 0.
TrailingZerosInt(k) ==
  CHOOSE b \in 0..LimbBits : k % TwoTo(b) = 0 /\ (k \div TwoTo(b)) % 2 = 1

TrailingZerosAt(x, i) == LimbBits * (i - 1) + TrailingZerosInt(Limb(x, i))

\* The zero bits below the lowest set bit of x, which is not 0.
TrailingZeros(x) ==
  TrailingZerosAt(x, CHOOSE i \in 1..Len(x) :
                       x[i] # 0 /\ \A j \in 1..(i - 1) : x[j] = 0)

\* A limb of the quotient: the guess from the two highest limbs of what is
\* left, which is the limb or above it by 2 at most.
QuotientLimb(left, t, guess) ==
  IF BigCmp(BigMulSmall(t, guess), left) <= 0 THEN guess
  ELSE IF BigCmp(BigMulSmall(t, guess - 1), left) <= 0 THEN guess - 1
  ELSE guess - 2

RECURSIVE DivFrom(_, _, _, _, _)
DivLimb(n, t, i, left, acc, d) ==
  DivFrom(n, t, i - 1, BigSub(left, BigMulSmall(t, d)), <<d>> \o acc)

DivNext(n, t, i, left, acc) ==
  DivLimb(n, t, i, left, acc,
          QuotientLimb(left, t,
            Min(Base - 1,
                (Limb(left, Len(t) + 1) * Base + Limb(left, Len(t)))
                  \div Limb(t, Len(t)))))

\* The long division of n by t, at limb i of n: `left` is what the limbs
\* above it left, acc the limbs of the quotient so far.
DivFrom(n, t, i, left, acc) ==
  IF i = 0 THEN [q |-> BigTrim(acc), r |-> left]
  ELSE DivNext(n, t, i, BigTrim(<<Limb(n, i)>> \o left), acc)

\* The division of n by t, the highest limb of t having all its bits.
DivNormal(n, t) ==
  IF Len(n) < Len(t) THEN [q |-> <<>>, r |-> n]
  ELSE DivFrom(n, t, Len(n) - Len(t) + 1,
               SubSeq(n, Len(n) - Len(t) + 2, Len(n)), <<>>)

DivShifted(d, up) == [q |-> d.q, r |-> BigShr(d.r, up)]

DivBy(n, t, up) == DivShifted(DivNormal(BigShl(n, up), BigShl(t, up)), up)

\* The quotient q and the remainder r of n by t, which is not 0.  There is
\* one step for each limb n has more than t.
BigDivMod(n, t) == DivBy(n, t, LimbBits - BitLenInt(Limb(t, Len(t))))

SmallPowersOfTen == <<1, 10, 100, 1000, 10000>>

RECURSIVE BigTenTo(_)
\* 10^k
BigTenTo(k) ==
  IF k <= 4 THEN <<SmallPowersOfTen[k + 1]>>
  ELSE BigMul(BigTenTo(k \div 2), BigTenTo(k - k \div 2))

\* ----------------------------------------------------- JavaScript Numbers

\* The double sign * odd * 2^q in its one form.
Packed(sign, odd, q) ==
  IF q >= 0 /\ BitLen(odd) + q <= 31
  THEN Num(sign * BigToInt(BigShl(odd, q)))
  ELSE [t |-> "number", n |-> sign, m |-> odd, e |-> q, s |-> "", a |-> <<>>]

PackedAt(sign, mag, q, zeros) == Packed(sign, BigShr(mag, zeros), q + zeros)

\* 0 with the sign.
Zero(sign) == IF sign < 0 THEN MinusZero ELSE Num(0)

\* The infinity with the sign.
Infinity(sign) == IF sign < 0 THEN MinusInfinity ELSE PlusInfinity

\* The double sign * mag * 2^q, which that product is exactly.
Pack(sign, mag, q) ==
  IF Len(mag) = 0 THEN Zero(sign) ELSE PackedAt(sign, mag, q, TrailingZeros(mag))

\* sign * mant * 2^q, an infinity from 2^1024 on.
InRange(sign, mant, q) ==
  IF BitLen(mant) + q > 1024 THEN Infinity(sign) ELSE Pack(sign, mant, q)

\* Round to nearest, ties to even: kept is what stays, half the first bit
\* that goes, rest whether anything below that bit is not 0.
Rounded(kept, half, rest) ==
  IF half /\ (rest \/ BigBit(kept, 0) = 1) THEN BigAdd(kept, <<1>>) ELSE kept

\* The value below rounded at the bit `shift` of mag.
RoundedAt(sign, mag, q, sticky, shift) ==
  IF shift <= 0 THEN InRange(sign, mag, q)
  ELSE InRange(sign,
         Rounded(BigShr(mag, shift), BigBit(mag, shift - 1) = 1,
                 sticky \/ LowBitsSet(mag, shift - 1)),
         q + shift)

\* The double nearest to sign * (mag + f) * 2^q, where f is 0, or with
\* sticky set a fraction between 0 and 1 (mag then has more than 54 bits):
\* 53 bits are kept, fewer below 2^-1022, none below 2^-1074.
Double(sign, mag, q, sticky) ==
  IF Len(mag) = 0 THEN Zero(sign)
  ELSE RoundedAt(sign, mag, q, sticky,
                 Max(q + BitLen(mag) - 53, 0 - 1074) - q)

\* A finite Number that is an integer of 31 bits is held in n.
IsInt(x) == x.m = <<1>> /\ x.e = 0

\* |x| without its power of two, for a finite Number.
Magnitude(x) == IF IsInt(x) THEN BigOf(Abs(x.n)) ELSE x.m

\* -1, 0 or 1 as a * 2^p is below, equal to or above b * 2^q.
CompareAt(a, p, b, q) ==
  IF BitLen(a) + p # BitLen(b) + q
  THEN (IF BitLen(a) + p < BitLen(b) + q THEN 0 - 1 ELSE 1)
  ELSE BigCmp(BigShl(a, p - Min(p, q)), BigShl(b, q - Min(p, q)))

\* -1, 0 or 1 as |x| is below, equal to or above |y|; neither is 0.
CompareAbs(x, y) == CompareAt(Magnitude(x), x.e, Magnitude(y), y.e)

\* The place of a Number among the infinities.
Rank(x) == IF x.s = "Infinity" THEN 1 ELSE IF x.s = "-Infinity" THEN 0 - 1 ELSE 0

\* -1, 0 or 1 as x is below, equal to or above y, and 2 when one is NaN.
Order(x, y) ==
  IF IsNaN(x) \/ IsNaN(y) THEN 2
  ELSE IF Rank(x) # Rank(y) THEN (IF Rank(x) < Rank(y) THEN 0 - 1 ELSE 1)
  ELSE IF ~IsFinite(x) THEN 0
  ELSE IF Sgn(x.n) # Sgn(y.n) THEN (IF Sgn(x.n) < Sgn(y.n) THEN 0 - 1 ELSE 1)
  ELSE IF x.n = 0 THEN 0
  ELSE IF IsInt(x) /\ IsInt(y) THEN Sgn(x.n - y.n)
  ELSE Sgn(x.n) * CompareAbs(x, y)

\* x < y and x <= y on Numbers: false when one is NaN.
Lt(x, y) == Order(x, y) = 0 - 1
Le(x, y) == Order(x, y) \in {0 - 1, 0}

\* -x
Neg(x) ==
  IF IsNaN(x) THEN NaN
  ELSE IF x.s = "Infinity" THEN MinusInfinity
  ELSE IF x.s = "-Infinity" THEN PlusInfinity
  ELSE IF x.s = "-0" THEN Num(0)
  ELSE IF x.n = 0 THEN MinusZero
  ELSE [x EXCEPT !.n = 0 - x.n]

\* The sum of sx * a and sy * b, of opposite signs, times 2^q; order says
\* which of a and b is the larger.
AddOpposite(sx, a, sy, b, q, order) ==
  IF order = 0 THEN Num(0)
  ELSE IF order > 0 THEN Double(sx, BigSub(a, b), q, FALSE)
  ELSE Double(sy, BigSub(b, a), q, FALSE)

\* The sum of sx * a * 2^q and sy * b * 2^q, rounded once.
AddAt(sx, a, sy, b, q) ==
  IF sx = sy THEN Double(sx, BigAdd(a, b), q, FALSE)
  ELSE AddOpposite(sx, a, sy, b, q, BigCmp(a, b))

\* x + y on Numbers: the exact sum, rounded to the nearest double.
Add(x, y) ==
  IF IsNaN(x) \/ IsNaN(y) THEN NaN
  ELSE IF ~IsFinite(x) THEN (IF ~IsFinite(y) /\ x.s # y.s THEN NaN ELSE x)
  ELSE IF ~IsFinite(y) THEN y
  ELSE IF x.n = 0 /\ y.n = 0
  THEN (IF x.s = "-0" /\ y.s = "-0" THEN MinusZero ELSE Num(0))
  ELSE IF x.n = 0 THEN y
  ELSE IF y.n = 0 THEN x
  ELSE IF IsInt(x) /\ IsInt(y) /\ Abs(x.n) < TwoTo(30) /\ Abs(y.n) < TwoTo(30)
  THEN Num(x.n + y.n)
  ELSE AddAt(Sgn(x.n), BigShl(Magnitude(x), x.e - Min(x.e, y.e)),
             Sgn(y.n), BigShl(Magnitude(y), y.e - Min(x.e, y.e)),
             Min(x.e, y.e))

\* x - y on Numbers.
Sub(x, y) == Add(x, Neg(y))

\* Math.min(x, y) on Numbers: -0 is below 0.
MathMin(x, y) ==
  IF IsNaN(x) \/ IsNaN(y) THEN NaN
  ELSE IF Lt(y, x) THEN y
  ELSE IF Lt(x, y) THEN x
  ELSE IF y.s = "-0" THEN y
  ELSE x

\* ToIntegerOrInfinity(x) clamped to -len .. len, which is all that slice
\* reads of it.
Clamped(x, len) ==
  IF IsNaN(x) THEN 0
  ELSE IF x.s = "Infinity" THEN len
  ELSE IF x.s = "-Infinity" THEN 0 - len
  ELSE IF IsInt(x) THEN Sgn(x.n) * Min(Abs(x.n), len)
  ELSE IF x.e >= 0 \/ BitLen(x.m) + x.e > 31 THEN x.n * len
  ELSE x.n * Min(BigToInt(BigShr(x.m, 0 - x.e)), len)

\* ---------------------------------------------------------- Number::toString

Digits == <<"0", "1", "2", "3", "4", "5", "6", "7", "8", "9">>
IsDigit(c) == \E d \in 1..10 : Digits[d] = c
DigitVal(c) == (CHOOSE d \in 1..10 : Digits[d] = c) - 1

\* The shortest digits that read back as the double v = r / s * 10^k are
\* looked for between v - mm / s * 10^k and v + mp / s * 10^k, the halves of
\* the gaps to the doubles next to v; the ends are of the range with an even
\* mantissa, as they round to v.
AtOrAbove(r, mp, s, even) ==
  IF even THEN BigCmp(BigAdd(r, mp), s) >= 0 ELSE BigCmp(BigAdd(r, mp), s) > 0

AtOrBelow(r, mm, even) ==
  IF even THEN BigCmp(r, mm) <= 0 ELSE BigCmp(r, mm) < 0

RECURSIVE ScaleUp(_, _)
\* k is raised until the upper end of the range is below 10^k.
ScaleUp(g, even) ==
  IF AtOrAbove(g.r, g.mp, g.s, even)
  THEN ScaleUp([g EXCEPT !.s = BigMulSmall(@, 10), !.k = @ + 1], even)
  ELSE g

RECURSIVE ScaleDown(_, _)
\* k is lowered while the upper end stays below 10^(k - 1).
ScaleDown(g, even) ==
  IF AtOrAbove(BigMulSmall(g.r, 10), BigMulSmall(g.mp, 10), g.s, even)
  THEN g
  ELSE ScaleDown([g EXCEPT !.r = BigMulSmall(@, 10), !.mp = BigMulSmall(@, 10),
                           !.mm = BigMulSmall(@, 10), !.k = @ - 1], even)

\* The range scaled by 10^k, for a k near the one looked for.
ScaledBy(g, k) ==
  IF k >= 0 THEN [g EXCEPT !.s = BigMul(@, BigTenTo(k)), !.k = k]
  ELSE [g EXCEPT !.r = BigMul(@, BigTenTo(0 - k)),
                 !.mp = BigMul(@, BigTenTo(0 - k)),
                 !.mm = BigMul(@, BigTenTo(0 - k)), !.k = k]

\* The last digit: d, or d + 1 if that is nearer; of two as near the even.
LastDigit(d, low, high, half) ==
  IF low /\ ~high THEN d
  ELSE IF high /\ ~low THEN d + 1
  ELSE IF half < 0 THEN d
  ELSE IF half > 0 THEN d + 1
  ELSE IF d % 2 = 0 THEN d ELSE d + 1

RECURSIVE Generate(_, _, _)
GenerateNext(g, even, acc, d, mp, mm) ==
  IF ~AtOrBelow(d.r, mm, even) /\ ~AtOrAbove(d.r, mp, g.s, even)
  THEN Generate([g EXCEPT !.r = d.r, !.mp = mp, !.mm = mm], even,
                acc \o Digits[BigToInt(d.q) + 1])
  ELSE acc \o Digits[LastDigit(BigToInt(d.q), AtOrBelow(d.r, mm, even),
                               AtOrAbove(d.r, mp, g.s, even),
                               BigCmp(BigShl(d.r, 1), g.s)) + 1]

\* The digits after acc: one at a time until what is left is within the
\* range.
Generate(g, even, acc) ==
  GenerateNext(g, even, acc, BigDivMod(BigMulSmall(g.r, 10), g.s),
               BigMulSmall(g.mp, 10), BigMulSmall(g.mm, 10))

\* The shortest digits of a scaled double, and the place of its point.
ShortestOf(g, even) == [digits |-> Generate(g, even, ""), point |-> g.k]

\* The double mant * 2^q, mant odd, whose gap to the double below is
\* 2^below and to the double above 2^(below + wide); low is the least of q,
\* below and 0, from which all is counted, and k is near log10 of the double.
ShortestAt(mant, q, below, wide, low, k, even) ==
  ShortestOf(
    ScaleDown(
      ScaleUp(
        ScaledBy([r |-> BigShl(mant, q - low + 1),
                  s |-> BigShl(<<1>>, 1 - low),
                  mp |-> BigShl(<<1>>, below + wide - low),
                  mm |-> BigShl(<<1>>, below - low),
                  k |-> 0], k),
        even),
      even),
    even)

\* The gap below the double mant * 2^q is 2^ulp, or half of that under a
\* power of two that is not the least of its exponent.
ShortestFrom(mant, q, ulp) ==
  IF mant = <<1>> /\ ulp > 0 - 1074
  THEN ShortestAt(mant, q, ulp - 1, 1, Min(Min(q, ulp - 1), 0),
                  ((BitLen(mant) + q - 1) * 30103) \div 100000,
                  BitLen(mant) < 53 /\ q > 0 - 1074)
  ELSE ShortestAt(mant, q, ulp, 0, Min(Min(q, ulp), 0),
                  ((BitLen(mant) + q - 1) * 30103) \div 100000,
                  BitLen(mant) < 53 /\ q > 0 - 1074)

\* The shortest decimal digits that read back as the double mant * 2^q
\* (the nearest to it of that length), with the place of the point.
Shortest(mant, q) ==
  ShortestFrom(mant, q, Max(q + BitLen(mant) - 53, 0 - 1074))

RECURSIVE Zeros(_)
Zeros(k) == IF k <= 0 THEN "" ELSE "0" \o Zeros(k - 1)

\* The digits d * 10^(point - 1) with an exponent, as 1.5e+21 is written.
Exponential(d, point) ==
  (IF Len(d) = 1 THEN d ELSE SubSeq(d, 1, 1) \o "." \o SubSeq(d, 2, Len(d)))
    \o (IF point < 1 THEN "e-" \o ToString(1 - point)
        ELSE "e+" \o ToString(point - 1))

\* The digits d with the decimal point after the first `point` of them.
Notation(d, point) ==
  IF Len(d) <= point /\ point <= 21 THEN d \o Zeros(point - Len(d))
  ELSE IF 0 < point /\ point <= 21
  THEN SubSeq(d, 1, point) \o "." \o SubSeq(d, point + 1, Len(d))
  ELSE IF 0 - 6 < point /\ point <= 0 THEN "0." \o Zeros(0 - point) \o d
  ELSE Exponential(d, point)

Written(short) == Notation(short.digits, short.point)

\* Number::toString(x) in radix 10.
NumberToString(x) ==
  IF x.s = "-0" THEN "0"
  ELSE IF ~IsFinite(x) THEN x.s
  ELSE IF IsInt(x) THEN ToString(x.n)
  ELSE (IF x.n < 0 THEN "-" ELSE "") \o Written(Shortest(x.m, x.e))

\* ------------------------------------------------- StringToNumber, parseFloat

\* The characters of a string.
Chars(str) == [i \in 1..Len(str) |-> SubSeq(str, i, i)]

HexDigits ==
  <<"0", "1", "2", "3", "4", "5", "6", "7", "8", "9", "a", "b", "c", "d", "e", "f">>
UpperHexDigits ==
  <<"0", "1", "2", "3", "4", "5", "6", "7", "8", "9", "A", "B", "C", "D", "E", "F">>
\* The value of c as a digit of the radix, or -1.
RadixVal(c, radix) ==
  IF \E d \in 1..radix : HexDigits[d] = c \/ UpperHexDigits[d] = c
  THEN (CHOOSE d \in 1..radix : HexDigits[d] = c \/ UpperHexDigits[d] = c) - 1
  ELSE 0 - 1

\* StrWhiteSpaceChar, of the characters a string of this module can hold:
\* space, tab, line feed, carriage return, form feed, vertical tab, no-break
\* space, U+FEFF and U+1680.
WhiteSpace ==
  {" ", "\t", "\n", "\r", "\f", "", " ", "﻿", " "}

\* The first position from i on that holds no white space.
SkipWhite(chars, i) ==
  CHOOSE p \in i..(Len(chars) + 1) :
    /\ p > Len(chars) \/ chars[p] \notin WhiteSpace
    /\ \A j \in i..(p - 1) : chars[j] \in WhiteSpace

\* The last position up to j that holds no white space.
TrimEnd(chars, j) ==
  CHOOSE p \in 0..j :
    /\ p = 0 \/ chars[p] \notin WhiteSpace
    /\ \A k \in (p + 1)..j : chars[k] \in WhiteSpace

\* Number of leading digits of chars from position i on.
IntPrefixLen(chars, i) ==
  CHOOSE k \in 0..Max(0, Len(chars) - i + 1) :
    /\ \A j \in i..(i + k - 1) : IsDigit(chars[j])
    /\ i + k > Len(chars) \/ ~IsDigit(chars[i + k])

\* Number of leading zeros of chars from position i on.
LeadingZeros(chars, i) ==
  CHOOSE k \in 0..Max(0, Len(chars) - i + 1) :
    /\ \A j \in i..(i + k - 1) : chars[j] = "0"
    /\ i + k > Len(chars) \/ chars[i + k] # "0"

RECURSIVE DigitsValue(_, _, _)
\* Value of the digits chars[i..j], nine at most.
DigitsValue(chars, i, j) ==
  IF j < i THEN 0
  ELSE 10 * DigitsValue(chars, i, j - 1) + DigitVal(chars[j])

RECURSIVE BigDigits(_, _, _)
\* The number whose digits are chars[i..j].
BigDigits(chars, i, j) ==
  IF j - i < 9 THEN BigOf(DigitsValue(chars, i, j))
  ELSE BigAdd(BigMul(BigDigits(chars, i, i + (j - i) \div 2),
                     BigTenTo(j - (i + (j - i) \div 2))),
              BigDigits(chars, i + (j - i) \div 2 + 1, j))

FractionOf(sign, d, up, sticky) ==
  Double(sign, d.q, 0 - up, sticky \/ Len(d.r) > 0)

\* The double nearest to sign * big / ten: the quotient is taken of
\* big * 2^up, with up such that it has 61 or 62 bits.
Fraction(sign, big, ten, up) ==
  IF up >= 0 THEN FractionOf(sign, BigDivMod(BigShl(big, up), ten), up, FALSE)
  ELSE FractionOf(sign, BigDivMod(BigShr(big, 0 - up), ten), up,
                  LowBitsSet(big, 0 - up))

FractionBy(sign, big, ten) ==
  Fraction(sign, big, ten, 61 + BitLen(ten) - BitLen(big))

\* The double nearest to sign * big * 10^x.
Decimal(sign, big, x) ==
  IF x >= 0 THEN Double(sign, BigMul(big, BigTenTo(x)), 0, FALSE)
  ELSE FractionBy(sign, big, BigTenTo(0 - x))

PowersOfTen ==
  <<1, 10, 100, 1000, 10000, 100000, 1000000, 10000000, 100000000, 1000000000>>

\* sign * value / ten where that is an integer: it is the double.
Whole(sign, chars, x, lead, value, ten) ==
  IF value % ten = 0 THEN Num(sign * (value \div ten))
  ELSE Decimal(sign, BigDigits(chars, lead + 1, Len(chars)), x)

\* The double nearest to sign * D * 10^x, D having the digits chars, the
\* first `lead` of them zeros: an infinity from 10^310 on, 0 below 10^-330.
\* Nine digits or fewer that make an integer are read as that integer.
Significant(sign, chars, x, lead) ==
  IF lead = Len(chars) THEN Zero(sign)
  ELSE IF Len(chars) - lead + x > 310 THEN Infinity(sign)
  ELSE IF Len(chars) - lead + x < 0 - 330 THEN Zero(sign)
  ELSE IF Len(chars) - lead <= 9 /\ 0 - 9 <= x /\ x <= 0
  THEN Whole(sign, chars, x, lead, DigitsValue(chars, lead + 1, Len(chars)),
             PowersOfTen[1 - x])
  ELSE Decimal(sign, BigDigits(chars, lead + 1, Len(chars)), x)

DigitsNumber(sign, chars, x) == Significant(sign, chars, x, LeadingZeros(chars, 1))

\* The exponent digits chars[i..j], the first `lead` of them zeros, as a
\* value, no larger than it need be to leave the range of the doubles.
ExponentOf(chars, i, j, lead) ==
  IF j - i + 1 - lead > 4 THEN 9999 ELSE DigitsValue(chars, i + lead, j)

ExponentValue(chars, i, j) ==
  ExponentOf(chars, i, j, LeadingZeros(SubSeq(chars, i, j), 1))

\* chars[j], or "" where chars ends.
CharAt(chars, j) == IF 1 <= j /\ j <= Len(chars) THEN chars[j] ELSE ""

\* A decimal literal read: digits * 10^-f and, with x > 0, the exponent
\* whose digits are chars[r..r + x - 1] after the e at position q.
Scanned(chars, negative, digits, f, q, r, x) ==
  [found |-> TRUE,
   next |-> IF x > 0 THEN r + x ELSE q,
   value |->
     DigitsNumber(IF negative THEN 0 - 1 ELSE 1, digits,
       IF x = 0 THEN 0 - f
       ELSE IF CharAt(chars, q + 1) = "-"
       THEN 0 - ExponentValue(chars, r, r + x - 1) - f
       ELSE ExponentValue(chars, r, r + x - 1) - f)]

\* The exponent part after the mantissa that ends before position q: an e,
\* a sign or none (the digits then start at r), and one digit at least.
ScanExponent(chars, negative, digits, f, q, r) ==
  Scanned(chars, negative, digits, f, q, r,
          IF CharAt(chars, q) \in {"e", "E"} THEN IntPrefixLen(chars, r) ELSE 0)

\* The mantissa from position p: k digits, a point or none (dot is 1 or 0),
\* f digits; there is none without a digit.
ScanMantissa(chars, i, p, k, dot, f) ==
  IF k = 0 /\ f = 0 THEN [found |-> FALSE, next |-> i, value |-> NaN]
  ELSE ScanExponent(chars, CharAt(chars, i) = "-",
         SubSeq(chars, p, p + k - 1) \o SubSeq(chars, p + k + 1, p + k + f),
         f, p + k + dot + f,
         IF CharAt(chars, p + k + dot + f + 1) \in {"+", "-"}
         THEN p + k + dot + f + 2 ELSE p + k + dot + f + 1)

\* The literal from position p, after the sign at position i if there is one.
ScanUnsigned(chars, i, p, k) ==
  IF p + 7 <= Len(chars)
     /\ SubSeq(chars, p, p + 7) = <<"I", "n", "f", "i", "n", "i", "t", "y">>
  THEN [found |-> TRUE, next |-> p + 8,
        value |-> IF CharAt(chars, i) = "-" THEN MinusInfinity ELSE PlusInfinity]
  ELSE IF CharAt(chars, p + k) = "."
  THEN ScanMantissa(chars, i, p, k, 1, IntPrefixLen(chars, p + k + 1))
  ELSE ScanMantissa(chars, i, p, k, 0, 0)

\* The sign or none at position i.
ScanSigned(chars, i, p) == ScanUnsigned(chars, i, p, IntPrefixLen(chars, p))

\* The longest StrDecimalLiteral of chars from position i: whether there is
\* one, its value (the double nearest to the literal) and the position
\* after it.
ScanDecimal(chars, i) ==
  ScanSigned(chars, i, IF CharAt(chars, i) \in {"+", "-"} THEN i + 1 ELSE i)

\* The value of a scan, or NaN if it found no literal.
ValueOrNaN(scan) == IF scan.found THEN scan.value ELSE NaN

\* parseFloat of a string given as its characters: white space is skipped,
\* the longest decimal literal is read and what follows it is ignored.
ParseFloat(chars) == ValueOrNaN(ScanDecimal(chars, SkipWhite(chars, 1)))

RECURSIVE BigRadix(_, _, _, _)
\* The number whose digits are chars[i..j], each of `bits` bits.
BigRadix(chars, i, j, bits) ==
  IF i = j THEN BigOf(RadixVal(chars[i], TwoTo(bits)))
  ELSE BigAdd(BigShl(BigRadix(chars, i, i + (j - i) \div 2, bits),
                     bits * (j - (i + (j - i) \div 2))),
              BigRadix(chars, i + (j - i) \div 2 + 1, j, bits))

\* The radix the first two characters name: 0x, 0o, 0b, or none of them.
Radix(chars) ==
  IF Len(chars) < 2 \/ chars[1] # "0" THEN 10
  ELSE CASE chars[2] \in {"x", "X"} -> 16
         [] chars[2] \in {"o", "O"} -> 8
         [] chars[2] \in {"b", "B"} -> 2
         [] OTHER -> 10

\* The double nearest to the digits chars[3..] in the radix; NaN if there is
\* none, or one that is no digit of it.
RadixNumber(chars, radix) ==
  IF Len(chars) > 2 /\ \A j \in 3..Len(chars) : RadixVal(chars[j], radix) >= 0
  THEN Double(1, BigRadix(chars, 3, Len(chars),
                          CHOOSE b \in 1..4 : TwoTo(b) = radix), 0, FALSE)
  ELSE NaN

\* The value of a scan that read all of the characters, else NaN.
WholeOrNaN(chars, scan) ==
  IF scan.found /\ scan.next = Len(chars) + 1 THEN scan.value ELSE NaN

\* StringToNumber of the characters, white space at both ends taken off.
TrimmedToNumber(chars, radix) ==
  IF Len(chars) = 0 THEN Num(0)
  ELSE IF radix = 10 THEN WholeOrNaN(chars, ScanDecimal(chars, 1))
  ELSE RadixNumber(chars, radix)

CharsToNumber(chars) == TrimmedToNumber(chars, Radix(chars))

\* The characters without the white space at both ends.
Trimmed(chars) == SubSeq(chars, SkipWhite(chars, 1), TrimEnd(chars, Len(chars)))

\* StringToNumber: the trimmed string is empty (0), a literal of radix 16, 8
\* or 2, or a decimal literal and nothing else; any other text is NaN.
StringToNumber(str) == CharsToNumber(Trimmed(Chars(str)))

\* xs.join(",") on an array of strings.
RECURSIVE Join(_)
Join(xs) ==
  IF xs = <<>> THEN ""
  ELSE IF Len(xs) = 1 THEN xs[1]
  ELSE Join(SubSeq(xs, 1, Len(xs) - 1)) \o "," \o xs[Len(xs)]

\* String(v).
JsString(v) ==
  CASE v.t = "number" -> NumberToString(v)
    [] v.t = "string" -> v.s
    [] v.t = "null" -> "null"
    [] v.t = "undefined" -> "undefined"
    [] v.t = "array" -> Join(v.a)

\* ToNumber(v): of an array, that of its elements joined.
ToNumber(v) ==
  CASE v.t = "number" -> v
    [] v.t = "undefined" -> NaN
    [] v.t = "null" -> Num(0)
    [] OTHER -> StringToNumber(IF v.t = "string" THEN v.s ELSE Join(v.a))

\* v + w: a string or an array on either side makes it a concatenation.
Plus(v, w) ==
  IF v.t \in {"string", "array"} \/ w.t \in {"string", "array"}
  THEN Str(JsString(v) \o JsString(w))
  ELSE Add(ToNumber(v), ToNumber(w))

\* v - w
Minus(v, w) == Sub(ToNumber(v), ToNumber(w))

\* The index slice starts or ends at: one below 0 counts from the end.
RelativeIndex(k, len) == IF k < 0 THEN len + k ELSE k

\* items.slice(start, end)
Slice(items, start, end) ==
  SubSeq(items,
         RelativeIndex(Clamped(ToNumber(start), Len(items)), Len(items)) + 1,
         RelativeIndex(Clamped(ToNumber(end), Len(items)), Len(items)))

\* ---------------------------------------------------------- length, includes

\* ids.includes(productId): of an array whether an element is productId, of
\* a string whether productId is a part of it.
Includes(ids, productId) ==
  IF ids.t = "string"
  THEN \E i \in 1..(Len(ids.s) + 1) :
         i + Len(productId) - 1 <= Len(ids.s)
         /\ SubSeq(ids.s, i, i + Len(productId) - 1) = productId
  ELSE \E i \in 1..Len(ids.a) : ids.a[i] = productId

\* `ids.length > 0`: a property read of null or undefined is a TypeError.
LengthThrows(ids) == ids.t \in {"null", "undefined"}
\* `ids.length > 0` where it does not throw: of an array and of a string
\* (a number has no length, and undefined > 0 is false).
LengthPositive(ids) ==
  \/ ids.t = "array" /\ Len(ids.a) > 0
  \/ ids.t = "string" /\ Len(ids.s) > 0
\* `ids?.length > 0`: the optional chain never throws.
OptLengthPositive(ids) ==
  \/ ids.t = "array" /\ Len(ids.a) > 0
  \/ ids.t = "string" /\ Len(ids.s) > 0

\* parseFloat(line.cost?.amountPerQuantity?.amount || "0")
LinePrice(line) ==
  IF line.amount = <<>> THEN ParseFloat(<<"0">>) ELSE ParseFloat(line.amount)

\* line.quantity || 0
LineQuantity(line) == IF line.quantity = 0 THEN 0 ELSE line.quantity

\* ------------------------------------------------------------ run(): parse

\* The shared constant every early return hands out.
EMPTY_DISCOUNT == [discountApplicationStrategy |-> "FIRST", discounts |-> <<>>]

\* A configuration object none of whose fields is present.
NoFields ==
  [minProducts |-> Undefined, maxDiscounted |-> Undefined,
   discountType |-> Undefined, discountValue |-> Undefined,
   requiredTargetType |-> Undefined, requiredTargetIds |-> Undefined,
   discountedTargetType |-> Undefined, discountedTargetIds |-> Undefined,
   targetType |-> Undefined, targetIds |-> Undefined]

\* `!configValue`: the metafield (or its value) is missing, or it is "".
ConfigMissing(configValue) == configValue.text \in {"undefined", "empty"}

\* Mutant: the SyntaxError of an unparseable value goes unnoticed and the
\* value is read as an object without fields.
JsonParseNeverThrows(configValue) == FALSE

\* JSON.parse(configValue) throws a SyntaxError, which run() catches.
JsonParseThrows(configValue) == configValue.text = "invalid"

\* `const { ... } = config` throws a TypeError when config is null.
DestructureThrows(configValue) == configValue.text = "null"

\* The fields JSON.parse yields: those of an object; none for a number.
JsonParse(configValue) ==
  IF configValue.text = "object" THEN configValue.fields ELSE NoFields

\* Mutant: a threshold left out is read as 0.
DestructureMinZero(config) ==
  [minProducts |-> Default(config.minProducts, Num(0)),
   maxDiscounted |-> Default(config.maxDiscounted, Null),
   discountType |-> Default(config.discountType, Str("percentage")),
   discountValue |-> Default(config.discountValue, Num(0)),
   requiredTargetType |-> Default(config.requiredTargetType, Str("all")),
   requiredTargetIds |-> Default(config.requiredTargetIds, Arr(<<>>)),
   discountedTargetType |-> Default(config.discountedTargetType, Str("all")),
   discountedTargetIds |-> Default(config.discountedTargetIds, Arr(<<>>)),
   targetType |-> config.targetType,
   targetIds |-> config.targetIds]

\* The destructuring of lines 40-53, defaults applied.
Destructure(config) ==
  [minProducts |-> Default(config.minProducts, Num(1)),
   maxDiscounted |-> Default(config.maxDiscounted, Null),
   discountType |-> Default(config.discountType, Str("percentage")),
   discountValue |-> Default(config.discountValue, Num(0)),
   requiredTargetType |-> Default(config.requiredTargetType, Str("all")),
   requiredTargetIds |-> Default(config.requiredTargetIds, Arr(<<>>)),
   discountedTargetType |-> Default(config.discountedTargetType, Str("all")),
   discountedTargetIds |-> Default(config.discountedTargetIds, Arr(<<>>)),
   targetType |-> config.targetType,
   targetIds |-> config.targetIds]

\* --------------------------------------------------------- run(): classify

\* Mutant: no line is skipped.
EveryLineWellFormed(line) == TRUE

\* A line the loop does not skip: a ProductVariant with a product id.
WellFormed(line) == line.typename = "ProductVariant" /\ line.productId # ""

\* One selector test of the new mode: `type === "all"`, else for "product"
\* and "collection" `ids.length > 0 && ids.includes(productId)`.
NewModeThrows(type, ids) ==
  (StrictEq(type, "product") \/ StrictEq(type, "collection")) /\ LengthThrows(ids)

NewModeMatch(type, ids, productId) ==
  \/ StrictEq(type, "all")
  \/ /\ StrictEq(type, "product") \/ StrictEq(type, "collection")
     /\ LengthPositive(ids)
     /\ Includes(ids, productId)

\* The selector test of the legacy mode, on targetType and targetIds?.length.
LegacyMatch(type, ids, productId) ==
  \/ StrictEq(type, "all")
  \/ /\ StrictEq(type, "product") \/ StrictEq(type, "collection")
     /\ OptLengthPositive(ids)
     /\ Includes(ids, productId)

\* `targetType && !requiredTargetType`
LegacyRequired(c) == Truthy(c.targetType) /\ ~Truthy(c.requiredTargetType)

\* `targetType && !discountedTargetType`
LegacyDiscounted(c) == Truthy(c.targetType) /\ ~Truthy(c.discountedTargetType)

\* Lines 81-102.
isRequired(c, productId) ==
  IF LegacyRequired(c)
  THEN LegacyMatch(c.targetType, c.targetIds, productId)
  ELSE NewModeMatch(c.requiredTargetType, c.requiredTargetIds, productId)

\* Lines 108-129.
isDiscountable(c, productId) ==
  IF LegacyDiscounted(c)
  THEN LegacyMatch(c.targetType, c.targetIds, productId)
  ELSE NewModeMatch(c.discountedTargetType, c.discountedTargetIds, productId)

\* The required test of lines 81-102 throws.
RequiredThrows(c) ==
  ~LegacyRequired(c) /\ NewModeThrows(c.requiredTargetType, c.requiredTargetIds)

\* The discounted test of lines 108-129 throws.
DiscountedThrows(c) ==
  ~LegacyDiscounted(c) /\ NewModeThrows(c.discountedTargetType, c.discountedTargetIds)

\* The body of the loop throws on a well-formed line.
LineThrows(c) == RequiredThrows(c) \/ DiscountedThrows(c)

\* The unit of a line the loop of lines 133-139 pushes.
Unit(line, price) ==
  [cartLineId |-> line.id, productId |-> line.productId, price |-> price]

\* The k copies of a unit.
Copies(unit, k) == IF k <= 0 THEN <<>> ELSE [i \in 1..k |-> unit]

\* quantity copies of the unit of a line (lines 133-139).
Units(line, k) == Copies(Unit(line, LinePrice(line)), k)

\* The loop of lines 70-141 from line i on, with the count (a Number: line
\* 105 adds each quantity to it) and the items so far.
RECURSIVE ClassifyFrom(_, _, _, _, _)
ClassifyFrom(c, cartLines, i, count, items) ==
  IF i > Len(cartLines)
  THEN [threw |-> FALSE, requiredProductCount |-> count, discountableItems |-> items]
  ELSE LET line == cartLines[i] IN
    IF ~WellFormed(line) THEN ClassifyFrom(c, cartLines, i + 1, count, items)
    ELSE IF RequiredThrows(c)
    THEN [threw |-> TRUE, requiredProductCount |-> count, discountableItems |-> items]
    ELSE LET counted == IF isRequired(c, line.productId)
                        THEN Add(count, Num(LineQuantity(line))) ELSE count
         IN IF DiscountedThrows(c)
            THEN [threw |-> TRUE, requiredProductCount |-> counted,
                  discountableItems |-> items]
            ELSE ClassifyFrom(c, cartLines, i + 1, counted,
                   IF isDiscountable(c, line.productId)
                   THEN items \o Units(line, LineQuantity(line)) ELSE items)

Classify(c, cartLines) == ClassifyFrom(c, cartLines, 1, Num(0), <<>>)

\* ------------------------------------------------------------- run(): gate

\* `requiredProductCount < minProducts` (line 147).
NotEnoughRequired(count, c) == Lt(count, ToNumber(c.minProducts))

\* `discountableItems.length === 0` (line 153).
NoDiscountableItems(items) == Len(items) = 0

\* ----------------------------------------------------------- run(): select

\* The sign of a Number as the sort reads a comparator's answer: NaN is 0.
Sign(v) ==
  IF IsNaN(v) THEN 0
  ELSE IF v.s = "Infinity" THEN 1
  ELSE IF v.s = "-Infinity" THEN 0 - 1
  ELSE Sgn(v.n)

\* The comparator at a and b: a.price - b.price of line 159, and for a
\* descending sort b.price - a.price.
PriceOrder(a, b, descending) ==
  Sign(Sub(IF descending THEN b.price ELSE a.price,
           IF descending THEN a.price ELSE b.price))

\* The elements of a sequence.
Elements(items) == {items[i] : i \in 1..Len(items)}

\* The comparator is a consistent comparator for the items, as the language
\* requires of one for the order to be defined: what it holds equal and what
\* it puts before are transitive, and it puts b after a where it puts a
\* before b.  With a.price - b.price it is one unless a price is NaN (which
\* it holds equal to every price) while two others differ.
Consistent(items, descending) ==
  \A a, b, c \in Elements(items) :
    /\ PriceOrder(a, b, descending) = 0 - PriceOrder(b, a, descending)
    /\ (PriceOrder(a, b, descending) = 0 /\ PriceOrder(b, c, descending) = 0)
         => PriceOrder(a, c, descending) = 0
    /\ (PriceOrder(a, b, descending) < 0 /\ PriceOrder(b, c, descending) < 0)
         => PriceOrder(a, c, descending) < 0
    /\ (PriceOrder(a, b, descending) > 0 /\ PriceOrder(b, c, descending) > 0)
         => PriceOrder(a, c, descending) > 0

\* Mutant: of the elements held equal the later ones come first, so the
\* sort is not stable.
AheadOrLater(items, i, descending) ==
  Cardinality({j \in 1..Len(items) :
                 \/ PriceOrder(items[j], items[i], descending) < 0
                 \/ PriceOrder(items[j], items[i], descending) = 0 /\ j > i})

\* The elements the sorted array holds before items[i]: those the comparator
\* puts before it and, the sort being stable, of those it holds equal to it
\* the ones that were before it.
Ahead(items, i, descending) ==
  Cardinality({j \in 1..Len(items) :
                 \/ PriceOrder(items[j], items[i], descending) < 0
                 \/ PriceOrder(items[j], items[i], descending) = 0 /\ j < i})

\* The items, each at the place that says how many come before it.
Placed(items, ahead) ==
  [p \in 1..Len(items) |->
     items[CHOOSE i \in 1..Len(items) : ahead[i] = p - 1]]

\* The order a consistent comparator defines: ascending by the comparator,
\* the elements it holds equal in the order they had.
Ordered(items, descending) ==
  Placed(items, [i \in 1..Len(items) |-> Ahead(items, i, descending)])

\* The items in every order.
Reorderings(items) ==
  {sorted \in [1..Len(items) -> Elements(items)] :
     \A unit \in Elements(items) :
       Cardinality({i \in 1..Len(items) : sorted[i] = unit})
         = Cardinality({i \in 1..Len(items) : items[i] = unit})}

\* Array.prototype.sort with a comparator on prices: the orders the call may
\* leave the array in.  A consistent comparator defines the order, and it is
\* the only one; with any other the order is the implementation's, which
\* run.js does not name, so that each is one the call may leave.
SortBy(items, descending) ==
  IF Consistent(items, descending) THEN {Ordered(items, descending)}
  ELSE Reorderings(items)

\* discountableItems.sort((a, b) => a.price - b.price): ascending and stable.
SortByPrice(items) == SortBy(items, FALSE)

\* Mutant: the cap is ignored.
itemsToDiscountUncapped(items, c) == Num(Len(items))

\* Mutant: a cap of 0 is a cap.
itemsToDiscountCappedAtZero(items, c) ==
  IF c.maxDiscounted.t = "number"
  THEN MathMin(Num(Len(items)), ToNumber(c.maxDiscounted))
  ELSE Num(Len(items))

\* Lines 162-164.
itemsToDiscount(items, c) ==
  IF Truthy(c.maxDiscounted)
  THEN MathMin(Num(Len(items)), ToNumber(c.maxDiscounted))
  ELSE Num(Len(items))

\* Mutant: the minProducts cheapest units are skipped whatever the selectors,
\* as the variant of run() kept in DiscountFunctionSettings.jsx does.
discountedItemsSkipping(sorted, c) ==
  LET above == Minus(Num(Len(sorted)), c.minProducts)
      take == IF Truthy(c.maxDiscounted) THEN MathMin(above, ToNumber(c.maxDiscounted))
              ELSE above
  IN Slice(sorted, c.minProducts, Plus(c.minProducts, take))

\* Line 167: slice(0, itemsToDiscount) of the items, which line 159 sorted.
discountedItems(sorted, c) == Slice(sorted, Num(0), itemsToDiscount(sorted, c))

\* ------------------------------------------------- the keys of an object

\* The properties every object inherits from Object.prototype: read through
\* an object that has no such key of its own, each is a truthy value.
ObjectPrototypeKeys ==
  {"constructor", "hasOwnProperty", "isPrototypeOf", "propertyIsEnumerable",
   "toLocaleString", "toString", "valueOf", "__proto__", "__defineGetter__",
   "__defineSetter__", "__lookupGetter__", "__lookupSetter__"}

RECURSIVE DigitsBelow(_, _, _)
\* Of two digit strings of one length, a is the smaller number from i on.
DigitsBelow(a, b, i) ==
  IF i > Len(a) THEN FALSE
  ELSE IF a[i] # b[i] THEN DigitVal(a[i]) < DigitVal(b[i])
  ELSE DigitsBelow(a, b, i + 1)

\* The integer key a is below the integer key b.
IndexBelow(a, b) ==
  \/ Len(a) < Len(b)
  \/ Len(a) = Len(b) /\ DigitsBelow(Chars(a), Chars(b), 1)

\* The key is an array index: the decimal form of an integer from 0 to
\* 2^32 - 2.
IsArrayIndex(key) ==
  LET chars == Chars(key)
  IN /\ Len(chars) > 0
     /\ \A i \in 1..Len(chars) : IsDigit(chars[i])
     /\ Len(chars) = 1 \/ chars[1] # "0"
     /\ IndexBelow(key, "4294967295")

RECURSIVE InsertIndexKey(_, _)
\* Puts the group among the groups of integer keys, in ascending order.
InsertIndexKey(groups, g) ==
  IF groups = <<>> THEN <<g>>
  ELSE IF IndexBelow(groups[Len(groups)].cartLineId, g.cartLineId)
  THEN Append(groups, g)
  ELSE Append(InsertIndexKey(SubSeq(groups, 1, Len(groups) - 1), g),
              groups[Len(groups)])

RECURSIVE SortIndexKeys(_)
SortIndexKeys(groups) ==
  IF groups = <<>> THEN <<>>
  ELSE InsertIndexKey(SortIndexKeys(SubSeq(groups, 1, Len(groups) - 1)),
                      groups[Len(groups)])

\* Object.entries and Object.values of the object the groups were put in,
\* each under its cartLineId: the integer keys first, in ascending order,
\* then the other keys in the order they were created.
OwnProperties(groups) ==
  LET IsIndex(g) == IsArrayIndex(g.cartLineId)
      IsName(g) == ~IsArrayIndex(g.cartLineId)
  IN SortIndexKeys(SelectSeq(groups, IsIndex)) \o SelectSeq(groups, IsName)

\* One group per unit, the units of a line never merged.
lineQuantitiesUnmerged(items) ==
  [k \in 1..Len(items) |-> [cartLineId |-> items[k].cartLineId, quantity |-> 1]]

\* Lines 178-188: the groups in the order their line is first met.  A key
\* that Object.prototype has holds a truthy value from the start: no group is
\* made for it and the count goes to the inherited value.
RECURSIVE lineQuantities(_)
lineQuantities(items) ==
  IF items = <<>> THEN <<>>
  ELSE LET before == lineQuantities(SubSeq(items, 1, Len(items) - 1))
           key == items[Len(items)].cartLineId
       IN IF key \in ObjectPrototypeKeys THEN before
          ELSE IF \E g \in 1..Len(before) : before[g].cartLineId = key
          THEN [g \in 1..Len(before) |->
                  IF before[g].cartLineId = key
                  THEN [before[g] EXCEPT !.quantity = @ + 1]
                  ELSE before[g]]
          ELSE Append(before, [cartLineId |-> key, quantity |-> 1])

\* Lines 191-196: Object.entries(lineQuantities) mapped to targets.
targets(items) ==
  LET groups == OwnProperties(lineQuantities(items))
  IN [g \in 1..Len(groups) |->
        [id |-> groups[g].cartLineId, quantity |-> groups[g].quantity]]

\* Mutant: a percentage above 100 is clamped to 100.
valueClamped(c) ==
  IF StrictEq(c.discountType, "percentage")
  THEN [kind |-> "percentage",
        amount |-> IF c.discountValue.t = "number" /\ Lt(Num(100), c.discountValue)
                   THEN "100" ELSE JsString(c.discountValue)]
  ELSE [kind |-> "fixedAmount", amount |-> JsString(c.discountValue)]

\* Lines 199-201: String(discountValue) under the key the type selects.
value(c) ==
  IF StrictEq(c.discountType, "percentage")
  THEN [kind |-> "percentage", amount |-> JsString(c.discountValue)]
  ELSE [kind |-> "fixedAmount", amount |-> JsString(c.discountValue)]

\* Lines 203-212.
Discount(items, c) ==
  [discountApplicationStrategy |-> "FIRST",
   discounts |-> <<[message |-> "Conditional Discount Applied",
                    targets |-> targets(items), value |-> value(c)]>>]

\* ------------------------------------------------------------------- run()

Returned(r) == [outcome |-> "returned", result |-> r]
Threw == [outcome |-> "threw", result |-> EMPTY_DISCOUNT]

\* Lines 162-216, given the order the sort left the items in.
Selected(c, chosen) ==
  IF Len(chosen) = 0 THEN Returned(EMPTY_DISCOUNT)
  ELSE Returned(Discount(chosen, c))

\* Lines 146-216, given the classification of the cart: the ends there are,
\* one for each order the sort may leave the items in.
GateAndSelect(c, count, items) ==
  IF NotEnoughRequired(count, c) \/ NoDiscountableItems(items)
  THEN {Returned(EMPTY_DISCOUNT)}
  ELSE {Selected(c, discountedItems(sorted, c)) : sorted \in SortByPrice(items)}

\* run(input) as a whole: what it returns, or that it throws.  It is one
\* end unless the sort is left to the implementation.
run(in) ==
  IF ConfigMissing(in.configValue) \/ JsonParseThrows(in.configValue)
  THEN {Returned(EMPTY_DISCOUNT)}
  ELSE IF DestructureThrows(in.configValue) THEN {Threw}
  ELSE IF Len(in.cartLines) = 0 THEN {Returned(EMPTY_DISCOUNT)}
  ELSE LET c == Destructure(JsonParse(in.configValue))
           cl == Classify(c, in.cartLines)
       IN IF cl.threw THEN {Threw}
          ELSE GateAndSelect(c, cl.requiredProductCount, cl.discountableItems)

\* ------------------------------------------------------------------ inputs

\* The cart line ids, by position in the cart.
LineIds == <<"L1", "L2", "L3", "L4", "L5">>

Products == {"A", "B"}

\* The amounts "5.0" and "10.0" as the platform sends them.
Amounts == {<<"5", ".", "0">>, <<"1", "0", ".", "0">>}

\* The quantities of the enumerated well-formed lines.
Quantities == {1, 2}

\* A well-formed line at position i.
GoodLines(i) ==
  {[id |-> LineIds[i], typename |-> "ProductVariant", productId |-> p,
    amount |-> a, quantity |-> q] :
     p \in Products, a \in Amounts, q \in Quantities}

\* Lines the loop skips or reads defaults from: not a ProductVariant, no
\* product id, no amount, no quantity.
OddLines(i) ==
  {[id |-> LineIds[i], typename |-> "CustomProduct", productId |-> "A",
    amount |-> <<"5", ".", "0">>, quantity |-> 1],
   [id |-> LineIds[i], typename |-> "ProductVariant", productId |-> "",
    amount |-> <<"5", ".", "0">>, quantity |-> 1],
   [id |-> LineIds[i], typename |-> "ProductVariant", productId |-> "A",
    amount |-> <<>>, quantity |-> 1],
   [id |-> LineIds[i], typename |-> "ProductVariant", productId |-> "B",
    amount |-> <<"5", ".", "5", "0">>, quantity |-> 0]}

\* The lines at position i: the well-formed ones, or with odd set the ones of
\* quantity 1 and the odd ones.
LinesAt(odd, i) ==
  IF odd THEN {line \in GoodLines(i) : line.quantity = 1} \cup OddLines(i)
  ELSE GoodLines(i)

\* The carts of exactly len lines, line i drawn from LinesAt(odd, i).
RECURSIVE CartsOfLen(_, _)
CartsOfLen(odd, len) ==
  IF len = 0 THEN {<<>>}
  ELSE {Append(cart, line) :
          cart \in CartsOfLen(odd, len - 1), line \in LinesAt(odd, len)}

\* The carts of at most MaxLines well-formed lines.
GoodCarts == UNION {CartsOfLen(FALSE, len) : len \in 0..MaxLines}

\* The carts of at most MaxLines lines with an odd line among them.
OddCarts ==
  {cart \in UNION {CartsOfLen(TRUE, len) : len \in 1..MaxLines} :
     \E i \in 1..Len(cart) : cart[i] \in OddLines(i)}

\* A selector as the configuration spells it: a type and an id list.
Selector(type, ids) == [type |-> type, ids |-> ids]

\* The required selectors of the enumerated configurations.
RequiredSelectors ==
  {Selector(Str("all"), Arr(<<>>)),
   Selector(Str("product"), Arr(<<"A">>)),
   Selector(Str("product"), Arr(<<>>))}

\* The discounted selectors of the enumerated configurations.
DiscountedSelectors ==
  {Selector(Str("all"), Arr(<<>>)),
   Selector(Str("product"), Arr(<<"A">>)),
   Selector(Str("product"), Arr(<<"B">>)),
   Selector(Str("product"), Arr(<<>>))}

\* A selector the configuration leaves out.
NotSupplied == Selector(Undefined, Undefined)

\* Selector pairs by collection, and over both products.
OtherSelectorPairs ==
  {<<Selector(Str("collection"), Arr(<<"A">>)), Selector(Str("collection"), Arr(<<"A">>))>>,
   <<Selector(Str("collection"), Arr(<<"A">>)), Selector(Str("collection"), Arr(<<"B">>))>>,
   <<Selector(Str("collection"), Arr(<<>>)), Selector(Str("collection"), Arr(<<>>))>>,
   <<Selector(Str("product"), Arr(<<"A", "B">>)), Selector(Str("product"), Arr(<<"B", "A">>))>>}

SelectorPairs ==
  (RequiredSelectors \X (DiscountedSelectors \cup {NotSupplied})) \cup OtherSelectorPairs

Thresholds == {Num(k) : k \in 1..MaxMin}
Caps == {Null} \cup {Num(k) : k \in 1..MaxCap}

\* A configuration object with the two selectors and no legacy pair.
NewConfig(min, max, req, disc) ==
  [text |-> "object",
   fields |-> [NoFields EXCEPT !.minProducts = min, !.maxDiscounted = max,
                 !.discountType = Str("percentage"), !.discountValue = Num(10),
                 !.requiredTargetType = req.type, !.requiredTargetIds = req.ids,
                 !.discountedTargetType = disc.type, !.discountedTargetIds = disc.ids]]

\* The shape the create action of app.discounts.new.tsx writes: the legacy
\* pair only.
LegacyConfig(min, max, sel) ==
  [text |-> "object",
   fields |-> [NoFields EXCEPT !.minProducts = min, !.maxDiscounted = max,
                 !.discountType = Str("percentage"), !.discountValue = Num(10),
                 !.targetType = sel.type, !.targetIds = sel.ids]]

\* A metafield value that is no JSON object.
NoObject(text) == [text |-> text, fields |-> NoFields]

NewConfigs ==
  {NewConfig(min, max, pair[1], pair[2]) :
     min \in Thresholds, max \in Caps, pair \in SelectorPairs}

LegacyConfigs ==
  {LegacyConfig(min, max, sel) :
     min \in Thresholds, max \in {Null, Num(1)},
     sel \in RequiredSelectors \cup {Selector(Str("collection"), Arr(<<"B">>))}}

\* Configurations that leave the cap out or set it to 0.
UncappedConfigs ==
  {NewConfig(min, max, sel, sel) :
     min \in {Num(1), Num(2)}, max \in {Undefined, Num(0)},
     sel \in {Selector(Str("all"), Arr(<<>>)), Selector(Str("product"), Arr(<<"A">>))}}

\* The discount types of the enumerated value configurations: left out,
\* the two the form writes, and null.
DiscountTypes == {Undefined, Str("percentage"), Str("fixed"), Null}

\* Their discount values: left out, 0, 5, and 150 (a percentage above 100).
DiscountValues == {Undefined, Num(0), Num(5), Num(150)}

\* A configuration without a cap that discounts all products, with the
\* threshold, the discount type and the discount value given or left out.
ValueConfig(min, type, val, req) ==
  [text |-> "object",
   fields |-> [NoFields EXCEPT !.minProducts = min, !.maxDiscounted = Null,
                 !.discountType = type, !.discountValue = val,
                 !.requiredTargetType = req.type, !.requiredTargetIds = req.ids,
                 !.discountedTargetType = Str("all"),
                 !.discountedTargetIds = Arr(<<>>)]]

ValueConfigs ==
  {ValueConfig(min, type, val, req) :
     min \in {Undefined, Num(1), Num(2)}, type \in DiscountTypes,
     val \in DiscountValues,
     req \in {Selector(Str("all"), Arr(<<>>)), Selector(Str("product"), Arr(<<"A">>))}}

\* Metafield values that are missing, empty, unparseable, or valid JSON of
\* another shape.
NonObjectConfigs ==
  {NoObject(text) : text \in {"undefined", "empty", "invalid", "null", "number"}}

\* Objects whose fields are missing, or not of the expected type: id fields
\* that are null or a number, types that are null or "".
MisshapenConfigs ==
  {NewConfig(Num(1), Null, Selector(Str("product"), Null),
             Selector(Str("all"), Arr(<<>>))),
   NewConfig(Num(1), Null, Selector(Str("all"), Arr(<<>>)),
             Selector(Str("collection"), Null)),
   NewConfig(Num(1), Null, Selector(Str("product"), Num(7)),
             Selector(Str("all"), Arr(<<>>))),
   NewConfig(Undefined, Undefined, NotSupplied, NotSupplied),
   NewConfig(Num(1), Null, Selector(Str(""), Arr(<<"A">>)),
             Selector(Null, Arr(<<"A">>))),
   LegacyConfig(Num(1), Null, Selector(Str("product"), Null)),
   [text |-> "object",
    fields |-> [NoFields EXCEPT !.requiredTargetType = Null,
                  !.discountedTargetType = Str(""),
                  !.targetType = Str("product"), !.targetIds = Arr(<<"A">>)]]}

OddConfigs == NonObjectConfigs \cup MisshapenConfigs

\* The inputs run() is invoked with: every configuration with every
\* well-formed cart, and the legacy, uncapped and odd ones with the odd carts
\* too.
AllConfigs ==
  NewConfigs \cup LegacyConfigs \cup UncappedConfigs \cup ValueConfigs \cup OddConfigs

RunInput(cv, cart) == [configValue |-> cv, cartLines |-> cart]

\* ------------------------------------------- the admin routes: their data

\* The shops that install the app, the ids prisma gives to rules (cuid) and
\* the ids the platform gives to discounts.
Shops == {"s1", "s2"}
RuleIds == <<"r1", "r2", "r3", "r4">>
DiscountIds == <<"d1", "d2", "d3", "d4">>

Range(seq) == {seq[i] : i \in 1..Len(seq)}

\* The column shopifyDiscountId is nullable (part_001, line 11).
NoId == "none"

\* No row with this id in the table DiscountRule.
NoRule ==
  [present |-> FALSE, shop |-> "", name |-> Null, status |-> "",
   shopifyDiscountId |-> NoId, createdAt |-> 0,
   minProducts |-> Null, maxDiscounted |-> Null, discountType |-> Null,
   discountValue |-> Null, targets |-> <<>>]

NoRules == [r \in Range(RuleIds) |-> NoRule]

\* No discount with this id on the platform; lastCall is the last of the
\* activate and deactivate mutations the platform has answered for the id.
Absent ==
  [exists |-> FALSE, shop |-> "", title |-> Null, active |-> FALSE,
   blob |-> NoObject(""), lastCall |-> "none"]

NoDiscounts == [d \in Range(DiscountIds) |-> Absent]

\* A target as the pages submit it: { id, title, type }.
Picked(type, id) == [id |-> id, title |-> "title of " \o id, type |-> type]

\* A row of DiscountRuleTarget written for a submitted target; a create
\* that names no role leaves the column at its default 'required' (part_002,
\* line 10).
Target(role, t) ==
  [role |-> role, targetType |-> t.type, targetId |-> t.id, targetTitle |-> t.title]

\* targets.map(...): one row for each submitted target, in their order.
Targets(role, items) == [i \in 1..Len(items) |-> Target(role, items[i])]

\* targets.map((t) => t.id)
Ids(items) == [i \in 1..Len(items) |-> items[i].id]

\* A form field that is to hold JSON: the text of an array of targets, as
\* JSON.stringify(targets) of the pages writes it; the text of a value that
\* is no array; a text that is no JSON; no field.
JsonArray(items) == [text |-> "array", items |-> items]
JsonObject == [text |-> "object", items |-> <<>>]
NoJson == [text |-> "invalid", items |-> <<>>]
NoField == [text |-> "", items |-> <<>>]

\* targetsJson ? JSON.parse(targetsJson) : [] throws a SyntaxError.
TargetsThrow(json) == json.text = "invalid"

\* targets.map throws a TypeError: the value parsed is no array.
MapThrows(json) == json.text = "object"

\* targetsJson ? JSON.parse(targetsJson) : [], an array.
ParsedTargets(json) == json.items

\* parseInt(str, 10) of a string given as its characters: white space is
\* skipped, a sign and the digits that follow it are read and what follows
\* them is ignored.
ParseIntAt(chars, i, p) ==
  IF IntPrefixLen(chars, p) = 0 THEN NaN
  ELSE DigitsNumber(IF CharAt(chars, i) = "-" THEN 0 - 1 ELSE 1,
                    SubSeq(chars, p, p + IntPrefixLen(chars, p) - 1), 0)

ParseIntFrom(chars, i) ==
  ParseIntAt(chars, i, IF CharAt(chars, i) \in {"+", "-"} THEN i + 1 ELSE i)

ParseInt(chars) == ParseIntFrom(chars, SkipWhite(chars, 1))

\* The fields of a submitted form as formData.get gives them: a string, or
\* null for a field the form does not have; the create form fills targetType
\* and targets, the edit form the required and the discounted pair.
NoForm ==
  [name |-> Null, minProducts |-> Null, maxDiscounted |-> Null,
   discountType |-> Null, discountValue |-> Null,
   targetType |-> Null, targets |-> NoField,
   requiredTargetType |-> Null, requiredTargets |-> NoField,
   discountedTargetType |-> Null, discountedTargets |-> NoField]

\* parseInt(formData.get("minProducts"), 10)
ParsedMinProducts(form) == ParseInt(Chars(JsString(form.minProducts)))

\* formData.get("maxDiscounted") ? parseInt(..., 10) : null
ParsedMaxDiscounted(form) ==
  IF Truthy(form.maxDiscounted) THEN ParseInt(Chars(JsString(form.maxDiscounted)))
  ELSE Null

\* parseFloat(formData.get("discountValue"))
ParsedDiscountValue(form) == ParseFloat(Chars(JsString(form.discountValue)))

\* JSON.stringify of a field of the configuration: a number that is not
\* finite is written as null, -0 as 0.
Stringified(v) ==
  IF v.t = "number" /\ ~IsFinite(v) THEN Null
  ELSE IF v = MinusZero THEN Num(0)
  ELSE v

\* The forms submitted to the create action: one of the page, with the
\* maxDiscounted field left empty; one whose targets are no JSON; one whose
\* targets are JSON but no array.
CreateForm ==
  [NoForm EXCEPT !.name = Str("Rule"), !.minProducts = Str("2"),
     !.discountType = Str("percentage"), !.discountValue = Str("10"),
     !.targetType = Str("product"),
     !.targets = JsonArray(<<Picked("product", "A")>>)]

CreateForms ==
  {CreateForm, [CreateForm EXCEPT !.targets = NoJson],
   [CreateForm EXCEPT !.targets = JsonObject]}

\* The forms submitted to the edit action, likewise.
EditForm ==
  [NoForm EXCEPT !.name = Str("Rule"), !.minProducts = Str("3"),
     !.maxDiscounted = Str("1"),
     !.discountType = Str("fixed"), !.discountValue = Str("5"),
     !.requiredTargetType = Str("product"),
     !.requiredTargets = JsonArray(<<Picked("product", "A")>>),
     !.discountedTargetType = Str("product"),
     !.discountedTargets = JsonArray(<<Picked("product", "B")>>)]

EditForms ==
  {EditForm, [EditForm EXCEPT !.discountedTargets = NoJson],
   [EditForm EXCEPT !.discountedTargets = JsonObject]}

\* An admin request: the action or loader it runs, the shop of its session,
\* the rule id and the form it carries, the await it is at, its locals, its
\* reply and the writes and platform calls it has made.
NoRequest ==
  [kind |-> "idle", shop |-> "", id |-> NoId, form |-> NoForm, pc |-> "idle",
   rule |-> NoRule, answer |-> "none", discountId |-> NoId,
   discountRules |-> <<>>, list |-> <<>>, existingIds |-> {},
   todo |-> <<>>, reply |-> "none", effects |-> <<>>]

\* The requests that can be in flight together.
Slots == {1, 2}

NoRequests == [s \in Slots |-> NoRequest]

\* ----------------------------------------------------------- state machine

VARIABLES
  input,                \* the RunInput: metafield value and cart lines
  pc,                   \* the stage run() is at
  config,               \* the destructured configuration (lines 40-53)
  requiredProductCount, \* line 67
  discountableItems,    \* line 68
  outcome,              \* "running", "returned" or "threw"
  result,               \* the FunctionRunResult returned
  shared,               \* the module-level object EMPTY_DISCOUNT (lines 12-15)
  log,                  \* the invocations that ended before this one
  rules,                \* the table DiscountRule with its DiscountRuleTarget rows
  discounts,            \* the automatic app discounts the platform holds
  requests              \* the admin requests in flight, each at one of its awaits

\* The variables of run() and those of the admin routes.
engine == <<input, pc, config, requiredProductCount, discountableItems, outcome,
            result, shared, log>>

admin == <<rules, discounts, requests>>

vars ==
  <<input, pc, config, requiredProductCount, discountableItems, outcome, result,
    shared, log, rules, discounts, requests>>

Init ==
  /\ \/ \E cv \in AllConfigs, cart \in GoodCarts : input = RunInput(cv, cart)
     \/ \E cv \in LegacyConfigs \cup UncappedConfigs \cup OddConfigs, cart \in OddCarts :
          input = RunInput(cv, cart)
  /\ pc = "parse"
  /\ config = Destructure(NoFields)
  /\ requiredProductCount = Num(0)
  /\ discountableItems = <<>>
  /\ outcome = "running"
  /\ result = EMPTY_DISCOUNT
  /\ shared = EMPTY_DISCOUNT
  /\ log = <<>>
  /\ rules = NoRules
  /\ discounts = NoDiscounts
  /\ requests = NoRequests

\* Mutant: the result is built in the module-level object, which keeps the
\* discounts of the invocation.
ReturnThroughShared(r) ==
  /\ pc' = "done"
  /\ outcome' = "returned"
  /\ result' = r
  /\ shared' = [shared EXCEPT !.discounts = r.discounts]

\* `return r`: no statement of run() writes to the module-level object.
Return(r) ==
  /\ pc' = "done"
  /\ outcome' = "returned"
  /\ result' = r
  /\ shared' = shared

\* An exception leaves run().
Throw ==
  /\ pc' = "done"
  /\ outcome' = "threw"
  /\ result' = result
  /\ shared' = shared

\* Lines 23-64: read the metafield, parse, destructure, read the cart lines.
Parse ==
  /\ pc = "parse"
  /\ UNCHANGED <<input, requiredProductCount, discountableItems, log>>
  /\ UNCHANGED admin
  /\ IF ConfigMissing(input.configValue) \/ JsonParseThrows(input.configValue)
     THEN Return(shared) /\ UNCHANGED config
     ELSE IF DestructureThrows(input.configValue)
     THEN Throw /\ UNCHANGED config
     ELSE /\ config' = Destructure(JsonParse(input.configValue))
          /\ IF Len(input.cartLines) = 0
             THEN Return(shared)
             ELSE pc' = "classify" /\ UNCHANGED <<outcome, result, shared>>

\* Lines 66-141: the loop over the cart lines.
ClassifyStep ==
  /\ pc = "classify"
  /\ UNCHANGED <<input, config, log>>
  /\ UNCHANGED admin
  /\ \E c \in {Classify(config, input.cartLines)} :
       /\ requiredProductCount' = c.requiredProductCount
       /\ discountableItems' = c.discountableItems
       /\ IF c.threw THEN Throw
          ELSE pc' = "gate" /\ UNCHANGED <<outcome, result, shared>>

\* Lines 146-156: the threshold and the empty discountable set.
Gate ==
  /\ pc = "gate"
  /\ UNCHANGED <<input, config, requiredProductCount, discountableItems, log>>
  /\ UNCHANGED admin
  /\ IF NotEnoughRequired(requiredProductCount, config)
        \/ NoDiscountableItems(discountableItems)
     THEN Return(shared)
     ELSE pc' = "select" /\ UNCHANGED <<outcome, result, shared>>

\* Lines 158-216: sort, cap, slice, group, build the result.
Select ==
  /\ pc = "select"
  /\ UNCHANGED <<input, config, requiredProductCount, log>>
  /\ UNCHANGED admin
  /\ \E sorted \in SortByPrice(discountableItems) :
       /\ discountableItems' = sorted
       /\ IF Len(discountedItems(sorted, config)) = 0
          THEN Return(shared)
          ELSE Return(Discount(discountedItems(sorted, config), config))

Next == Parse \/ ClassifyStep \/ Gate \/ Select

Spec == Init /\ [][Next]_vars

\* ------------------------------------------- run() invoked again and again

\* The inputs of the repeated invocations: a value that does not parse, a
\* rule on all products, and a rule that requires A and discounts B, each
\* with the empty cart, a cart of B, and a cart of A and B.
SessionConfigs ==
  {NoObject("invalid"),
   NewConfig(Num(1), Null, Selector(Str("all"), Arr(<<>>)),
             Selector(Str("all"), Arr(<<>>))),
   NewConfig(Num(2), Num(1), Selector(Str("product"), Arr(<<"A">>)),
             Selector(Str("product"), Arr(<<"B">>)))}

\* A line of the session carts: product p at 5.0, q units.
SessionLine(i, p, q) ==
  [id |-> LineIds[i], typename |-> "ProductVariant", productId |-> p,
   amount |-> <<"5", ".", "0">>, quantity |-> q]

SessionCarts ==
  {<<>>,
   <<SessionLine(1, "B", 2)>>,
   <<SessionLine(1, "A", 2), SessionLine(2, "B", 1)>>}

SessionInputs == {RunInput(cv, cart) : cv \in SessionConfigs, cart \in SessionCarts}

\* The first invocation of the module.
SessionInit ==
  /\ input \in SessionInputs
  /\ pc = "parse"
  /\ config = Destructure(NoFields)
  /\ requiredProductCount = Num(0)
  /\ discountableItems = <<>>
  /\ outcome = "running"
  /\ result = EMPTY_DISCOUNT
  /\ shared = EMPTY_DISCOUNT
  /\ log = <<>>
  /\ rules = NoRules
  /\ discounts = NoDiscounts
  /\ requests = NoRequests

\* The platform calls run() again, after the invocation before it has ended:
\* the locals are new, the module-level object is the one the module has.
Invoke ==
  /\ pc = "done"
  /\ Len(log) < MaxCalls
  /\ log' = Append(log, [input |-> input, outcome |-> outcome, result |-> result])
  /\ input' \in SessionInputs
  /\ pc' = "parse"
  /\ config' = Destructure(NoFields)
  /\ requiredProductCount' = Num(0)
  /\ discountableItems' = <<>>
  /\ outcome' = "running"
  /\ result' = EMPTY_DISCOUNT
  /\ shared' = shared
  /\ UNCHANGED admin

SessionNext == Parse \/ ClassifyStep \/ Gate \/ Select \/ Invoke

SessionSpec == SessionInit /\ [][SessionNext]_vars

\* ------------------- the variant of run() in DiscountFunctionSettings.jsx

\* `v || w`.
Or(v, w) == IF Truthy(v) THEN v ELSE w

\* The destructuring of lines 447-460: the two target types have no default.
DestructureEffective(parsed) ==
  [minProducts |-> Default(parsed.minProducts, Num(1)),
   maxDiscounted |-> Default(parsed.maxDiscounted, Null),
   discountType |-> Default(parsed.discountType, Str("percentage")),
   discountValue |-> Default(parsed.discountValue, Num(0)),
   requiredTargetType |-> parsed.requiredTargetType,
   requiredTargetIds |-> Default(parsed.requiredTargetIds, Arr(<<>>)),
   discountedTargetType |-> parsed.discountedTargetType,
   discountedTargetIds |-> Default(parsed.discountedTargetIds, Arr(<<>>)),
   targetType |-> parsed.targetType,
   targetIds |-> parsed.targetIds]

\* Lines 463-472 read requiredTargetIds.length and discountedTargetIds.length.
EffectiveThrows(c) ==
  LengthThrows(c.requiredTargetIds) \/ LengthThrows(c.discountedTargetIds)

\* Line 463.
effectiveRequiredTargetType(c) ==
  Or(Or(c.requiredTargetType, c.targetType), Str("all"))

\* Line 464.
effectiveRequiredTargetIds(c) ==
  IF LengthPositive(c.requiredTargetIds) THEN c.requiredTargetIds
  ELSE Or(c.targetIds, Arr(<<>>))

\* Lines 468-470.
effectiveDiscountedTargetType(c) ==
  IF LengthPositive(c.discountedTargetIds)
  THEN Or(c.discountedTargetType, Str("product"))
  ELSE IF StrictEq(c.discountedTargetType, "all") THEN Str("all")
  ELSE effectiveRequiredTargetType(c)

\* Lines 471-473.
effectiveDiscountedTargetIds(c) ==
  IF LengthPositive(c.discountedTargetIds) THEN c.discountedTargetIds
  ELSE effectiveRequiredTargetIds(c)

\* Lines 500-508.
isRequiredEffective(c, productId) ==
  NewModeMatch(effectiveRequiredTargetType(c), effectiveRequiredTargetIds(c),
               productId)

\* Lines 515-523.
isDiscountableEffective(c, productId) ==
  NewModeMatch(effectiveDiscountedTargetType(c), effectiveDiscountedTargetIds(c),
               productId)

\* The loop of lines 489-534 over the cart lines.
RECURSIVE ClassifyEffective(_, _)
ClassifyEffective(c, cartLines) ==
  IF cartLines = <<>>
  THEN [requiredProductCount |-> Num(0), discountableItems |-> <<>>]
  ELSE LET line == cartLines[Len(cartLines)]
           before == ClassifyEffective(c, SubSeq(cartLines, 1, Len(cartLines) - 1))
       IN IF ~WellFormed(line) THEN before
          ELSE [requiredProductCount |->
                  IF isRequiredEffective(c, line.productId)
                  THEN Add(before.requiredProductCount, Num(LineQuantity(line)))
                  ELSE before.requiredProductCount,
                discountableItems |->
                  IF isDiscountableEffective(c, line.productId)
                  THEN before.discountableItems \o Units(line, LineQuantity(line))
                  ELSE before.discountableItems]

\* Line 555.
itemsAboveThreshold(items, c) == Minus(Num(Len(items)), c.minProducts)

\* Lines 562-564.
itemsToDiscountAbove(items, c) ==
  IF Truthy(c.maxDiscounted)
  THEN MathMin(itemsAboveThreshold(items, c), ToNumber(c.maxDiscounted))
  ELSE itemsAboveThreshold(items, c)

\* Line 567: the slice of the items as the loop pushed them; nothing sorts
\* them.
discountedItemsEffective(items, c) ==
  Slice(items, c.minProducts, Plus(c.minProducts, itemsToDiscountAbove(items, c)))

\* Lines 569-618, given the units the slice took.
SelectedEffective(c, chosen) ==
  IF Len(chosen) = 0 THEN EMPTY_DISCOUNT ELSE Discount(chosen, c)

\* Lines 540-618, given the classification of the cart.
GateAndSelectEffective(c, count, items) ==
  IF NotEnoughRequired(count, c) \/ NoDiscountableItems(items)
     \/ Le(itemsAboveThreshold(items, c), Num(0))
  THEN EMPTY_DISCOUNT
  ELSE SelectedEffective(c, discountedItemsEffective(items, c))

\* The locals and the end of one invocation of the variant.
Ending(c, count, items, o, r) ==
  [config |-> c, requiredProductCount |-> count, discountableItems |-> items,
   outcome |-> o, result |-> r]

\* The end of the variant on the classification cl of the cart.
EndingEffective(c, cl) ==
  Ending(c, cl.requiredProductCount, cl.discountableItems, "returned",
         GateAndSelectEffective(c, cl.requiredProductCount, cl.discountableItems))

\* The variant as a whole (lines 427-621).
runEffective(in) ==
  LET none == Destructure(NoFields) IN
  IF ConfigMissing(in.configValue) \/ JsonParseThrows(in.configValue)
  THEN Ending(none, Num(0), <<>>, "returned", EMPTY_DISCOUNT)
  ELSE IF DestructureThrows(in.configValue)
  THEN Ending(none, Num(0), <<>>, "threw", EMPTY_DISCOUNT)
  ELSE LET c == DestructureEffective(JsonParse(in.configValue)) IN
    IF EffectiveThrows(c) THEN Ending(c, Num(0), <<>>, "threw", EMPTY_DISCOUNT)
    ELSE IF Len(in.cartLines) = 0
    THEN Ending(c, Num(0), <<>>, "returned", EMPTY_DISCOUNT)
    ELSE EndingEffective(c, ClassifyEffective(c, in.cartLines))

\* One invocation of the variant on an input not run yet.
EffectiveRun ==
  /\ pc = "parse"
  /\ \E end \in {runEffective(input)} :
       /\ config' = end.config
       /\ requiredProductCount' = end.requiredProductCount
       /\ discountableItems' = end.discountableItems
       /\ outcome' = end.outcome
       /\ result' = end.result
  /\ pc' = "done"
  /\ UNCHANGED <<input, shared, log>>
  /\ UNCHANGED admin

EffectiveNext == EffectiveRun

\* The variant invoked on the inputs run() is invoked with.
EffectiveSpec == Init /\ [][EffectiveNext]_vars

\* --------------------- the single-selector run() of src/unnamed/part_000

\* The destructuring of lines 40-47.
DestructureLegacy(parsed) ==
  [minProducts |-> Default(parsed.minProducts, Num(1)),
   maxDiscounted |-> Default(parsed.maxDiscounted, Null),
   discountType |-> Default(parsed.discountType, Str("percentage")),
   discountValue |-> Default(parsed.discountValue, Num(0)),
   targetType |-> Default(parsed.targetType, Str("all")),
   targetIds |-> Default(parsed.targetIds, Arr(<<>>))]

\* Lines 70-80.
isEligible(c, productId) == NewModeMatch(c.targetType, c.targetIds, productId)

\* merchandise.id: the enumerated products have one variant each.
VariantId(line) == "variant of " \o line.productId

\* quantity copies of the unit of a line (lines 88-94).
EligibleUnits(line, k) ==
  Copies([cartLineId |-> line.id, variantId |-> VariantId(line),
          price |-> LinePrice(line)], k)

\* The loop of lines 61-96 from line i on, with the items so far.
RECURSIVE ClassifyLegacyFrom(_, _, _, _)
ClassifyLegacyFrom(c, cartLines, i, items) ==
  IF i > Len(cartLines) THEN [threw |-> FALSE, eligibleItems |-> items]
  ELSE LET line == cartLines[i] IN
    IF ~WellFormed(line) THEN ClassifyLegacyFrom(c, cartLines, i + 1, items)
    ELSE IF NewModeThrows(c.targetType, c.targetIds)
    THEN [threw |-> TRUE, eligibleItems |-> items]
    ELSE ClassifyLegacyFrom(c, cartLines, i + 1,
           IF isEligible(c, line.productId)
           THEN items \o EligibleUnits(line, LineQuantity(line)) ELSE items)

\* eligibleItems.sort((a, b) => b.price - a.price) of line 111: descending
\* and stable; the orders it may leave the array in.
SortByPriceDescending(items) == SortBy(items, TRUE)

\* `totalEligible <= minProducts` (line 104).
NotAboveThreshold(items, c) == Le(Num(Len(items)), ToNumber(c.minProducts))

\* Lines 114-117.
itemsToDiscountLegacy(items, c) ==
  IF Truthy(c.maxDiscounted)
  THEN MathMin(Minus(Num(Len(items)), c.minProducts), ToNumber(c.maxDiscounted))
  ELSE Minus(Num(Len(items)), c.minProducts)

\* Mutant: the threshold units are not skipped.
discountedItemsLegacyFromStart(sorted, c) ==
  Slice(sorted, Num(0), Plus(c.minProducts, itemsToDiscountLegacy(sorted, c)))

\* Line 120, on the sorted items.
discountedItemsLegacy(sorted, c) ==
  Slice(sorted, c.minProducts, Plus(c.minProducts, itemsToDiscountLegacy(sorted, c)))

\* Lines 131-141: the groups in the order their line is first met, each with
\* the variant of its line; none for a key that Object.prototype has.
RECURSIVE lineQuantitiesLegacy(_)
lineQuantitiesLegacy(items) ==
  IF items = <<>> THEN <<>>
  ELSE LET before == lineQuantitiesLegacy(SubSeq(items, 1, Len(items) - 1))
           item == items[Len(items)]
       IN IF item.cartLineId \in ObjectPrototypeKeys THEN before
          ELSE IF \E g \in 1..Len(before) : before[g].cartLineId = item.cartLineId
          THEN [g \in 1..Len(before) |->
                  IF before[g].cartLineId = item.cartLineId
                  THEN [before[g] EXCEPT !.quantity = @ + 1]
                  ELSE before[g]]
          ELSE Append(before, [cartLineId |-> item.cartLineId,
                               variantId |-> item.variantId, quantity |-> 1])

\* Lines 144-149: one productVariant target per entry of the object.
targetsLegacy(items) ==
  LET groups == OwnProperties(lineQuantitiesLegacy(items))
  IN [g \in 1..Len(groups) |->
        [id |-> groups[g].variantId, quantity |-> groups[g].quantity]]

\* Lines 152-166.
DiscountLegacy(items, c) ==
  [discountApplicationStrategy |-> "FIRST",
   discounts |-> <<[message |-> "Conditional Discount Applied",
                    targets |-> targetsLegacy(items), value |-> value(c)]>>]

\* Lines 111-169, given the order the sort left the items in.
SelectedLegacy(c, sorted, chosen) ==
  Ending(c, Num(Len(sorted)), sorted, "returned",
         IF Len(chosen) = 0 THEN EMPTY_DISCOUNT ELSE DiscountLegacy(chosen, c))

\* The single-selector run() as a whole (lines 21-169): its locals at the
\* end, with totalEligible as the count, and what it returns; one end for
\* each order the sort may leave the items in.
runLegacy(in) ==
  LET none == DestructureLegacy(NoFields) IN
  IF ConfigMissing(in.configValue) \/ JsonParseThrows(in.configValue)
  THEN {Ending(none, Num(0), <<>>, "returned", EMPTY_DISCOUNT)}
  ELSE IF DestructureThrows(in.configValue)
  THEN {Ending(none, Num(0), <<>>, "threw", EMPTY_DISCOUNT)}
  ELSE LET c == DestructureLegacy(JsonParse(in.configValue)) IN
    IF Len(in.cartLines) = 0
    THEN {Ending(c, Num(0), <<>>, "returned", EMPTY_DISCOUNT)}
    ELSE LET cl == ClassifyLegacyFrom(c, in.cartLines, 1, <<>>)
             items == cl.eligibleItems
         IN IF cl.threw THEN {Ending(c, Num(0), items, "threw", EMPTY_DISCOUNT)}
            ELSE IF NotAboveThreshold(items, c)
            THEN {Ending(c, Num(Len(items)), items, "returned", EMPTY_DISCOUNT)}
            ELSE {SelectedLegacy(c, sorted, discountedItemsLegacy(sorted, c)) :
                    sorted \in SortByPriceDescending(items)}

\* One invocation of the single-selector run() on an input not run yet.
LegacyRun ==
  /\ pc = "parse"
  /\ \E end \in runLegacy(input) :
       /\ config' = end.config
       /\ requiredProductCount' = end.requiredProductCount
       /\ discountableItems' = end.discountableItems
       /\ outcome' = end.outcome
       /\ result' = end.result
  /\ pc' = "done"
  /\ UNCHANGED <<input, shared, log>>
  /\ UNCHANGED admin

LegacyNext == LegacyRun

\* The single-selector run() invoked on the inputs run() is invoked with.
LegacySpec == Init /\ [][LegacyNext]_vars

\* ----------------------------------------- the admin routes: their actions

\* One write or platform call of a request: the operation, the rule or
\* discount it names, the shop of the rule it is made for, for a status
\* update the status before and after, for a platform call its answer.
Effect(op, id, shop, from, to) ==
  [op |-> op, id |-> id, shop |-> shop, from |-> from, to |-> to]

Did(req, effect) == [req EXCEPT !.effects = Append(@, effect)]

\* The request ends with this reply.
Reply(req, reply) == [req EXCEPT !.pc = "done", !.reply = reply]

\* What admin.graphql can bring back from a mutation: the payload asked for,
\* a payload with userErrors, or an exception.
Answers == {"ok", "userErrors", "throw"}

\* The admin client of a session reaches the discounts of its own shop.
Reaches(shop, d) == d # NoId /\ discounts[d].exists /\ discounts[d].shop = shop

\* The ids generated for what the request in this slot creates.
NewRuleId(s) == RuleIds[2 + s]
NewDiscountId(s) == DiscountIds[2 + s]

\* The createdAt of the row written last.
Latest ==
  CHOOSE t \in {rules[r].createdAt : r \in Range(RuleIds)} :
    \A r \in Range(RuleIds) : rules[r].createdAt <= t

\* The column createdAt of a row written now (DEFAULT CURRENT_TIMESTAMP,
\* part_001, line 12): the clock, read to the second, shows the second of
\* the row written last or a later one.
Now == IF Latest = 0 THEN {1} ELSE {Latest, Latest + 1}

\* A rule an earlier request has written, and its discount on the platform.
InstalledRule(shop, status, d) ==
  [present |-> TRUE, shop |-> shop, name |-> Str("Rule"), status |-> status,
   shopifyDiscountId |-> d, createdAt |-> 1,
   minProducts |-> Num(2), maxDiscounted |-> Null, discountType |-> Str("percentage"),
   discountValue |-> Num(10),
   targets |-> <<Target("required", Picked("product", "A"))>>]

InstalledDiscount(rule) ==
  [exists |-> TRUE, shop |-> rule.shop, title |-> rule.name,
   active |-> (rule.status = "active"),
   blob |-> LegacyConfig(rule.minProducts, rule.maxDiscounted,
                         Selector(Str("product"), Arr(<<"A">>))),
   lastCall |-> "none"]

\* The rows and discounts the requests find: rules of the create action,
\* active or toggled to inactive, rules an older version of the route wrote
\* without a shopifyDiscountId (part_004, lines 89-97), and a first rule
\* whose discount was deleted on the platform; the second rule was created
\* after the first, in a later second or in the same.
FirstRules ==
  {NoRule, InstalledRule("s1", "active", NoId)}
    \cup {InstalledRule("s1", status, "d1") : status \in {"active", "inactive"}}

SecondRules ==
  {NoRule, InstalledRule("s1", "active", "d2")}
    \cup {[InstalledRule(shop, "active", "d2") EXCEPT !.createdAt = 2] : shop \in Shops}

DiscountOf(rule, gone) ==
  IF rule.present /\ rule.shopifyDiscountId # NoId /\ ~gone
  THEN InstalledDiscount(rule) ELSE Absent

AdminInit ==
  /\ \E first \in FirstRules, second \in SecondRules, gone \in BOOLEAN :
       /\ gone => first.shopifyDiscountId # NoId
       /\ rules = [NoRules EXCEPT !["r1"] = first, !["r2"] = second]
       /\ discounts = [NoDiscounts EXCEPT !["d1"] = DiscountOf(first, gone),
                                          !["d2"] = DiscountOf(second, FALSE)]
  /\ requests = NoRequests
  /\ input = RunInput(NoObject("invalid"), <<>>)
  /\ pc = "parse"
  /\ config = Destructure(NoFields)
  /\ requiredProductCount = Num(0)
  /\ discountableItems = <<>>
  /\ outcome = "running"
  /\ result = EMPTY_DISCOUNT
  /\ shared = EMPTY_DISCOUNT
  /\ log = <<>>

\* The rules the requests name: a shop asks for the first or the second
\* rule, the other shop for the first.
Asked == {<<"s1", "r1">>, <<"s1", "r2">>, <<"s2", "r1">>}

\* The requests the routes receive: the route, the shop of the session or
\* of the webhook, the id in the form or in the URL, the form; the forms
\* that are not of the pages come from one shop.
Arrivals ==
  {[NoRequest EXCEPT !.kind = "create", !.shop = shop, !.form = CreateForm] :
     shop \in Shops}
  \cup {[NoRequest EXCEPT !.kind = "create", !.shop = "s1", !.form = form] :
          form \in CreateForms}
  \cup {[NoRequest EXCEPT !.kind = kind, !.shop = shop] :
          kind \in {"loader", "redact"}, shop \in Shops}
  \cup {[NoRequest EXCEPT !.kind = kind, !.shop = ask[1], !.id = ask[2]] :
          kind \in {"delete", "toggle"}, ask \in Asked}
  \cup {[NoRequest EXCEPT !.kind = "edit", !.shop = ask[1], !.id = ask[2],
                          !.form = EditForm] : ask \in Asked}
  \cup {[NoRequest EXCEPT !.kind = "edit", !.shop = "s1", !.id = "r1", !.form = form] :
          form \in EditForms}
  \cup {[NoRequest EXCEPT !.kind = "other", !.shop = "s1", !.id = "r1"]}

\* A request reaches its loader or action; of two requests in flight the
\* one that came first is the first.
Arrive(s, arrivals) ==
  /\ requests[s].kind = "idle"
  /\ \A t \in Slots : t < s => requests[t].kind # "idle"
  /\ \E req \in arrivals :
       requests' = [requests EXCEPT ![s] = [req EXCEPT !.pc = "authenticate"]]
  /\ UNCHANGED <<rules, discounts>>
  /\ UNCHANGED engine

Start(s) == Arrive(s, Arrivals)

\* What follows the authentication in the loader or action of the request.
Authenticated(kind) ==
  CASE kind \in {"loader", "list"} -> "find"
    [] kind = "redact" -> "rules"
    [] OTHER -> "formData"

\* await authenticate.admin(request), in part_006 authenticate.webhook.
Authenticate(s) ==
  /\ requests[s].pc = "authenticate"
  /\ requests' = [requests EXCEPT ![s].pc = Authenticated(requests[s].kind)]
  /\ UNCHANGED <<rules, discounts>>
  /\ UNCHANGED engine

At(s, kind, at) == requests[s].kind = kind /\ requests[s].pc = at

\* ---- the create and the edit actions, in their versions

\* app.discounts.new.tsx and its version part_005; app.discounts.$id.tsx,
\* action of lines 60-174, and its version of lines 616-710.
Creates == {"create", "createRoles"}
Edits == {"edit", "editOld"}

\* The versions that read requiredTargets and discountedTargets; the others
\* read targetType and targets.
Paired(kind) == kind \in {"createRoles", "edit"}

\* app.discounts.$id.tsx, lines 128-138, and part_005, lines 74-83: the
\* configuration the function reads, as JSON.stringify writes it.
functionConfiguration(form) ==
  [text |-> "object",
   fields |-> [NoFields EXCEPT !.minProducts = Stringified(ParsedMinProducts(form)),
                 !.maxDiscounted = Stringified(ParsedMaxDiscounted(form)),
                 !.discountType = form.discountType,
                 !.discountValue = Stringified(ParsedDiscountValue(form)),
                 !.requiredTargetType = form.requiredTargetType,
                 !.requiredTargetIds = Arr(Ids(ParsedTargets(form.requiredTargets))),
                 !.discountedTargetType = form.discountedTargetType,
                 !.discountedTargetIds = Arr(Ids(ParsedTargets(form.discountedTargets)))]]

\* app.discounts.$id.tsx, lines 96-109, and part_005, lines 137-150.
allTargets(form) ==
  Targets("required", ParsedTargets(form.requiredTargets))
    \o Targets("discounted", ParsedTargets(form.discountedTargets))

\* app.discounts.new.tsx, lines 72-79, part_004, lines 46-53, and
\* app.discounts.$id.tsx, lines 666-673: the configuration the function
\* reads, as JSON.stringify writes it.
functionConfigurationNew(form) ==
  [text |-> "object",
   fields |-> [NoFields EXCEPT !.minProducts = Stringified(ParsedMinProducts(form)),
                 !.maxDiscounted = Stringified(ParsedMaxDiscounted(form)),
                 !.discountType = form.discountType,
                 !.discountValue = Stringified(ParsedDiscountValue(form)),
                 !.targetType = form.targetType,
                 !.targetIds = Arr(Ids(ParsedTargets(form.targets)))]]

\* The JSON fields of the form the action parses.
JsonFields(req) ==
  IF Paired(req.kind) THEN {req.form.requiredTargets, req.form.discountedTargets}
  ELSE {req.form.targets}

\* JSON.parse of one of them throws.
ParseThrows(req) == \E json \in JsonFields(req) : TargetsThrow(json)

\* The map over one of them throws.
MapsThrow(req) == \E json \in JsonFields(req) : MapThrows(json)

\* The configuration the action sends to the platform.
Configuration(req) ==
  IF Paired(req.kind) THEN functionConfiguration(req.form)
  ELSE functionConfigurationNew(req.form)

\* The targets the action writes with the rule: with their roles, or
\* without a role (the column defaults to "required", part_001).
Rows(req) ==
  IF Paired(req.kind) THEN allTargets(req.form)
  ELSE Targets("required", ParsedTargets(req.form.targets))

\* A row as prisma.discountRule.create writes it.
NewRule(req, d, createdAt) ==
  [present |-> TRUE, shop |-> req.shop, name |-> req.form.name, status |-> "active",
   shopifyDiscountId |-> d, createdAt |-> createdAt,
   minProducts |-> ParsedMinProducts(req.form),
   maxDiscounted |-> ParsedMaxDiscounted(req.form),
   discountType |-> req.form.discountType,
   discountValue |-> ParsedDiscountValue(req.form),
   targets |-> Rows(req)]

\* A discount as discountAutomaticAppCreate leaves it.
NewDiscount(req) ==
  [exists |-> TRUE, shop |-> req.shop, title |-> req.form.name, active |-> TRUE,
   blob |-> Configuration(req), lastCall |-> "none"]

\* ---- app.discounts.new.tsx, action; part_005, action

\* Lines 60-79: the fields of the form are read; JSON.parse of the targets
\* (line 69) or targets.map (line 78) may throw. In part_005, lines 56-83,
\* JSON.parse of lines 67 and 71 and the maps of lines 80 and 82.
CreateParsed(req) ==
  IF ParseThrows(req) \/ MapsThrow(req)
  THEN Reply(req, "threw")
  ELSE [req EXCEPT !.pc = "platform"]

\* Lines 11-16: await request.formData(); with the function id in the
\* environment the action goes on to read the form.
CreateFormData(s) ==
  /\ requests[s].kind \in Creates /\ requests[s].pc = "formData"
  /\ \E functionId \in BOOLEAN :
       requests' = [requests EXCEPT ![s] =
                      IF functionId THEN CreateParsed(@) ELSE [@ EXCEPT !.pc = "functions"]]
  /\ UNCHANGED <<rules, discounts>>
  /\ UNCHANGED engine

\* Lines 18-30: await admin.graphql of the shopifyFunctions query, outside
\* any try.
CreateFunctions(s) ==
  /\ requests[s].kind \in Creates /\ requests[s].pc = "functions"
  /\ \E answer \in {"ok", "throw"} :
       LET called == Did(requests[s],
                         Effect("shopifyFunctions", NoId, requests[s].shop, "", answer))
       IN  requests' = [requests EXCEPT ![s] =
                          IF answer = "throw" THEN Reply(called, "threw")
                          ELSE [called EXCEPT !.pc = "functionsJson"]]
  /\ UNCHANGED <<rules, discounts>>
  /\ UNCHANGED engine

\* Lines 32-79: await functionsResponse.json(), which may throw; the
\* function is among the nodes or the action ends.
CreateFunction(s) ==
  /\ requests[s].kind \in Creates /\ requests[s].pc = "functionsJson"
  /\ \E read \in {"found", "none", "throw"} :
       requests' = [requests EXCEPT ![s] =
                      CASE read = "throw" -> Reply(@, "threw")
                        [] read = "none" -> Reply(@, "failure")
                        [] OTHER -> CreateParsed(@)]
  /\ UNCHANGED <<rules, discounts>>
  /\ UNCHANGED engine

\* Mutant: the answer of the platform is not looked at.
CreateAnsweredUnchecked(req, answer, d) ==
  [req EXCEPT !.discountId = IF answer = "ok" THEN d ELSE NoId, !.pc = "create"]

\* Lines 119-133: userErrors, then a missing discountId, end the action.
CreateAnswered(req, answer, d) ==
  IF answer = "userErrors" THEN Reply(req, "failure")
  ELSE IF answer = "noDiscountId" THEN Reply(req, "failure")
  ELSE [req EXCEPT !.discountId = d, !.pc = "create"]

\* Lines 82-112: await admin.graphql of discountAutomaticAppCreate; the
\* platform creates the discount, answers with userErrors or with neither
\* userErrors nor a discount, or the call throws.
CreatePlatform(s) ==
  /\ requests[s].kind \in Creates /\ requests[s].pc = "platform"
  /\ \E answer \in Answers \cup {"noDiscountId"} :
       LET req == requests[s]
           d == NewDiscountId(s)
           called == Did(req, Effect("discountAutomaticAppCreate", d, req.shop, "", answer))
       IN  /\ discounts' =
                IF answer = "ok"
                THEN [discounts EXCEPT ![d] = NewDiscount(req)]
                ELSE discounts
           /\ requests' = [requests EXCEPT ![s] =
                             IF answer = "throw" THEN Reply(called, "threw")
                             ELSE [called EXCEPT !.answer = answer, !.pc = "platformJson"]]
  /\ UNCHANGED rules
  /\ UNCHANGED engine

\* Lines 114-133: await response.json(), which may throw and then leaves
\* the discount the platform has created; else the payload is looked at.
CreatePlatformJson(s) ==
  /\ requests[s].kind \in Creates /\ requests[s].pc = "platformJson"
  /\ \E read \in BOOLEAN :
       requests' = [requests EXCEPT ![s] =
                      IF read THEN CreateAnswered(@, @.answer, NewDiscountId(s))
                      ELSE Reply(@, "threw")]
  /\ UNCHANGED <<rules, discounts>>
  /\ UNCHANGED engine

\* Lines 136-157: prisma.discountRule.create with the nested targets, each
\* with its own type; the create may throw, and then writes nothing. In
\* part_005, lines 137-167, the targets have their roles.
CreateRule(s) ==
  /\ requests[s].kind \in Creates /\ requests[s].pc = "create"
  /\ \E written \in BOOLEAN, createdAt \in Now :
       LET req == requests[s]
           r == NewRuleId(s)
       IN  IF ~written
           THEN /\ requests' = [requests EXCEPT ![s] = Reply(req, "threw")]
                /\ UNCHANGED rules
           ELSE /\ rules' = [rules EXCEPT ![r] = NewRule(req, req.discountId, createdAt)]
                /\ requests' = [requests EXCEPT ![s] =
                                  Reply(Did([req EXCEPT !.id = r],
                                            Effect("create", r, req.shop, "", "active")),
                                        "success")]
  /\ UNCHANGED discounts
  /\ UNCHANGED engine

\* ---- app._index.tsx, action

\* Lines 77-81, 112 and 166: await request.formData(); the form names the
\* action and the id, and an action that is neither "delete" nor "toggle"
\* ends with success: false.
IndexFormData(s) ==
  /\ requests[s].kind \in {"delete", "toggle", "other"}
  /\ requests[s].pc = "formData"
  /\ requests' = [requests EXCEPT ![s] =
                    IF @.kind = "other" THEN Reply(@, "failure")
                    ELSE [@ EXCEPT !.pc = "find"]]
  /\ UNCHANGED <<rules, discounts>>
  /\ UNCHANGED engine

\* ---- app._index.tsx, action "toggle"

\* Line 118.
newStatus(rule) == IF rule.status = "active" THEN "inactive" ELSE "active"

\* Lines 113-116: findUnique by id; without a rule the action has nothing to do.
ToggleFind(s) ==
  /\ At(s, "toggle", "find")
  /\ LET req == requests[s]
         rule == rules[req.id]
     IN  requests' = [requests EXCEPT ![s] =
                        IF ~rule.present THEN Reply(req, "success")
                        ELSE [req EXCEPT !.rule = rule,
                                !.pc = IF rule.shopifyDiscountId # NoId
                                       THEN "platform" ELSE "update"]]
  /\ UNCHANGED <<rules, discounts>>
  /\ UNCHANGED engine

\* Lines 120-155: discountAutomaticActivate or discountAutomaticDeactivate;
\* the response is not read.
TogglePlatform(s) ==
  /\ At(s, "toggle", "platform")
  /\ \E answer \in Answers :
       LET req == requests[s]
           d == req.rule.shopifyDiscountId
           call == IF newStatus(req.rule) = "active"
                   THEN "discountAutomaticActivate" ELSE "discountAutomaticDeactivate"
           called == Did(req, Effect(call, d, req.rule.shop, "", answer))
       IN  /\ answer = "ok" => Reaches(req.shop, d)
           /\ discounts' =
                IF answer = "ok"
                THEN [discounts EXCEPT ![d].active = (newStatus(req.rule) = "active"),
                                       ![d].lastCall = call]
                ELSE IF answer = "userErrors"
                THEN [discounts EXCEPT ![d].lastCall = call]
                ELSE discounts
           /\ requests' = [requests EXCEPT ![s] =
                             IF answer = "throw" THEN Reply(called, "threw")
                             ELSE [called EXCEPT !.pc = "update"]]
  /\ UNCHANGED rules
  /\ UNCHANGED engine

\* Lines 157-163: prisma.discountRule.update by id, which throws when the
\* row is gone.
ToggleUpdate(s) ==
  /\ At(s, "toggle", "update")
  /\ LET req == requests[s]
         row == rules[req.id]
     IN  IF ~row.present
         THEN /\ requests' = [requests EXCEPT ![s] = Reply(req, "threw")]
              /\ UNCHANGED rules
         ELSE /\ rules' = [rules EXCEPT ![req.id].status = newStatus(req.rule)]
              /\ requests' = [requests EXCEPT ![s] =
                                Reply(Did(req, Effect("update", req.id, row.shop,
                                                      row.status, newStatus(req.rule))),
                                      "success")]
  /\ UNCHANGED discounts
  /\ UNCHANGED engine

\* ---- app._index.tsx, action "delete"

\* Lines 83-85: findUnique by id.
DeleteFind(s) ==
  /\ At(s, "delete", "find")
  /\ LET req == requests[s]
         rule == rules[req.id]
     IN  requests' = [requests EXCEPT ![s] =
                        [req EXCEPT !.rule = rule,
                           !.pc = IF rule.present /\ rule.shopifyDiscountId # NoId
                                  THEN "platform" ELSE "delete"]]
  /\ UNCHANGED <<rules, discounts>>
  /\ UNCHANGED engine

\* Lines 87-105: discountAutomaticDelete; the response is not read.
DeletePlatform(s) ==
  /\ At(s, "delete", "platform")
  /\ \E answer \in Answers :
       LET req == requests[s]
           d == req.rule.shopifyDiscountId
           called == Did(req, Effect("discountAutomaticDelete", d, req.rule.shop, "", answer))
       IN  /\ answer = "ok" => Reaches(req.shop, d)
           /\ discounts' =
                IF answer = "ok" THEN [discounts EXCEPT ![d].exists = FALSE]
                ELSE discounts
           /\ requests' = [requests EXCEPT ![s] =
                             IF answer = "throw" THEN Reply(called, "threw")
                             ELSE [called EXCEPT !.pc = "delete"]]
  /\ UNCHANGED rules
  /\ UNCHANGED engine

\* Lines 107-109: prisma.discountRule.delete by id, which throws when the
\* row is gone; the targets go with the rule (ON DELETE CASCADE).
DeleteRule(s) ==
  /\ At(s, "delete", "delete")
  /\ LET req == requests[s]
         row == rules[req.id]
     IN  IF ~row.present
         THEN /\ requests' = [requests EXCEPT ![s] = Reply(req, "threw")]
              /\ UNCHANGED rules
         ELSE /\ rules' = [rules EXCEPT ![req.id] = NoRule]
              /\ requests' = [requests EXCEPT ![s] =
                                Reply(Did(req, Effect("delete", req.id, row.shop, "", "")),
                                      "success")]
  /\ UNCHANGED discounts
  /\ UNCHANGED engine

\* ---- src/unnamed/part_006, action of the shop/redact webhook

\* Line 15: db.discountRule.deleteMany({ where: { shop } }); the targets go
\* with the rules (ON DELETE CASCADE).
RedactRules(s) ==
  /\ At(s, "redact", "rules")
  /\ LET req == requests[s] IN
       /\ rules' = [r \in Range(RuleIds) |->
                      IF rules[r].present /\ rules[r].shop = req.shop
                      THEN NoRule ELSE rules[r]]
       /\ requests' = [requests EXCEPT ![s] =
                         Did([req EXCEPT !.pc = "sessions"],
                             Effect("discountRule.deleteMany", NoId, req.shop, "", ""))]
  /\ UNCHANGED discounts
  /\ UNCHANGED engine

\* Lines 18-23: db.session.deleteMany({ where: { shop } }) and the empty
\* Response.
RedactSessions(s) ==
  /\ At(s, "redact", "sessions")
  /\ requests' = [requests EXCEPT ![s] =
                    Reply(Did(@, Effect("session.deleteMany", NoId, @.shop, "", "")),
                          "acknowledged")]
  /\ UNCHANGED <<rules, discounts>>
  /\ UNCHANGED engine

\* ---- app._index.tsx, loader

\* The rows of the shop.
ShopRules(shop) == {r \in Range(RuleIds) : rules[r].present /\ rules[r].shop = shop}

\* The orders orderBy: { createdAt: "desc" } allows for these rows: a row
\* created later comes first, rows of the same second come as the
\* database finds them.
Descending(ids) ==
  {order \in [1..Cardinality(ids) -> ids] :
     /\ \A r \in ids : \E p \in DOMAIN order : order[p] = r
     /\ \A p, q \in DOMAIN order :
          p < q => rules[order[p]].createdAt >= rules[order[q]].createdAt}

\* The rows as the list shows them.
Listed(order) ==
  [p \in DOMAIN order |->
     [id |-> order[p], shopifyDiscountId |-> rules[order[p]].shopifyDiscountId]]

\* findMany({ where: { shop }, orderBy: { createdAt: "desc" } }): the lists
\* the query may return.
findMany(shop) == {Listed(order) : order \in Descending(ShopRules(shop))}

\* Line 19.
rulesToCheck(list) == SelectSeq(list, LAMBDA row : row.shopifyDiscountId # NoId)

\* Lines 12-21: the rules of the shop; without a shopifyDiscountId among
\* them the list is returned as it is (line 72).
LoaderFind(s) ==
  /\ At(s, "loader", "find")
  /\ \E list \in findMany(requests[s].shop) :
       LET req == requests[s] IN
         requests' = [requests EXCEPT ![s] =
                        IF rulesToCheck(list) = <<>>
                        THEN Reply([req EXCEPT !.discountRules = list, !.list = list],
                                   "unsynced")
                        ELSE [req EXCEPT !.discountRules = list, !.pc = "query"]]
  /\ UNCHANGED <<rules, discounts>>
  /\ UNCHANGED engine

\* The ids of the nodes the platform returns for the ids asked: null for a
\* discount that does not exist (lines 44-48).
existingIds(req) ==
  {row.shopifyDiscountId : row \in
     {x \in Range(rulesToCheck(req.discountRules)) :
        Reaches(req.shop, x.shopifyDiscountId)}}

\* Lines 25-41: await admin.graphql of the nodes query, answered with the
\* nodes or with a payload without data.nodes; an exception is caught (line
\* 67) and the list read first is returned (line 72).
LoaderQuery(s) ==
  /\ At(s, "loader", "query")
  /\ \E answer \in {"ok", "noNodes", "throw"} :
       LET req == requests[s]
           called == Did(req, Effect("nodes", NoId, req.shop, "", answer))
       IN  requests' = [requests EXCEPT ![s] =
                          IF answer = "throw"
                          THEN Reply([called EXCEPT !.list = req.discountRules], "unsynced")
                          ELSE [called EXCEPT !.answer = answer,
                                  !.existingIds = IF answer = "ok" THEN existingIds(req)
                                                  ELSE {},
                                  !.pc = "json"]]
  /\ UNCHANGED <<rules, discounts>>
  /\ UNCHANGED engine

\* Line 52: the rules the loop deletes, in the order of rulesToCheck.
Orphaned(req) ==
  SelectSeq(rulesToCheck(req.discountRules),
            LAMBDA row : row.shopifyDiscountId \notin req.existingIds)

\* Lines 43-51: await response.json(), whose exception is caught too; then
\* existingIds and the loop over rulesToCheck.
LoaderJson(s) ==
  /\ At(s, "loader", "json")
  /\ \E read \in BOOLEAN :
       LET req == requests[s]
           called == Did(req, Effect("json", NoId, req.shop, "",
                                     IF read THEN "ok" ELSE "throw"))
       IN  requests' = [requests EXCEPT ![s] =
                          IF read
                          THEN [called EXCEPT !.todo = Orphaned(req), !.pc = "sync"]
                          ELSE Reply([called EXCEPT !.list = req.discountRules], "unsynced")]
  /\ UNCHANGED <<rules, discounts>>
  /\ UNCHANGED engine

\* Lines 51-58: one turn of the loop, prisma.discountRule.delete by id; when
\* the row is gone it throws, which is caught (line 67), and the list read
\* first is returned (line 72).
LoaderDelete(s) ==
  /\ At(s, "loader", "sync")
  /\ requests[s].todo # <<>>
  /\ LET req == requests[s]
         r == Head(req.todo).id
         row == rules[r]
     IN  IF ~row.present
         THEN /\ requests' = [requests EXCEPT ![s] =
                                Reply([req EXCEPT !.list = req.discountRules], "unsynced")]
              /\ UNCHANGED rules
         ELSE /\ rules' = [rules EXCEPT ![r] = NoRule]
              /\ requests' = [requests EXCEPT ![s] =
                                Did([req EXCEPT !.todo = Tail(@)],
                                    Effect("delete", r, row.shop, "", ""))]
  /\ UNCHANGED discounts
  /\ UNCHANGED engine

\* Lines 60-66: the list is read again and returned.
LoaderRefetch(s) ==
  /\ At(s, "loader", "sync")
  /\ requests[s].todo = <<>>
  /\ \E list \in findMany(requests[s].shop) :
       requests' = [requests EXCEPT ![s] = Reply([@ EXCEPT !.list = list], "synced")]
  /\ UNCHANGED <<rules, discounts>>
  /\ UNCHANGED engine

\* ---- app.discounts.$id.tsx, action (lines 60-174) and action (lines 616-710)

\* Lines 62-79: await request.formData() and the fields of the form;
\* JSON.parse of the required or of the discounted targets may throw. In
\* the action of lines 616-710, lines 618-629 and JSON.parse of the targets.
EditFormData(s) ==
  /\ requests[s].kind \in Edits /\ requests[s].pc = "formData"
  /\ requests' = [requests EXCEPT ![s] =
                    IF ParseThrows(@)
                    THEN Reply(@, "threw")
                    ELSE [@ EXCEPT !.pc = "find"]]
  /\ UNCHANGED <<rules, discounts>>
  /\ UNCHANGED engine

\* Mutant: the rule is looked up by id alone.
existingRuleOfAnyShop(req) == rules[req.id]

\* Lines 82-84: findFirst by id and shop.
existingRule(req) ==
  IF rules[req.id].present /\ rules[req.id].shop = req.shop
  THEN rules[req.id] ELSE NoRule

\* Lines 82-88; lines 632-638.
EditFind(s) ==
  /\ requests[s].kind \in Edits /\ requests[s].pc = "find"
  /\ LET req == requests[s]
         rule == existingRule(req)
     IN  requests' = [requests EXCEPT ![s] =
                        IF ~rule.present THEN Reply(req, "Discount rule not found")
                        ELSE [req EXCEPT !.rule = rule, !.pc = "targets"]]
  /\ UNCHANGED <<rules, discounts>>
  /\ UNCHANGED engine

\* Lines 91-109: deleteMany of the targets of the rule, then allTargets,
\* whose map throws on targets that are no array. In the action of lines
\* 616-710, lines 641-643 and the map of line 655.
EditTargets(s) ==
  /\ requests[s].kind \in Edits /\ requests[s].pc = "targets"
  /\ LET req == requests[s]
         deleted == Did(req, Effect("deleteMany", req.id, req.rule.shop, "", ""))
     IN  /\ rules' = [rules EXCEPT ![req.id].targets = <<>>]
         /\ requests' = [requests EXCEPT ![s] =
                           IF MapsThrow(req)
                           THEN Reply(deleted, "threw")
                           ELSE [deleted EXCEPT !.pc = "update"]]
  /\ UNCHANGED discounts
  /\ UNCHANGED engine

\* Lines 112-126: prisma.discountRule.update by id with the nested targets,
\* which throws when the row is gone. In the action of lines 616-710, lines
\* 646-663, the targets without a role.
EditUpdate(s) ==
  /\ requests[s].kind \in Edits /\ requests[s].pc = "update"
  /\ LET req == requests[s]
         row == rules[req.id]
         updated == Did(req, Effect("update", req.id, row.shop, row.status, row.status))
     IN  IF ~row.present
         THEN /\ requests' = [requests EXCEPT ![s] = Reply(req, "threw")]
              /\ UNCHANGED rules
         ELSE /\ rules' = [rules EXCEPT ![req.id] =
                             [row EXCEPT !.name = req.form.name,
                                !.minProducts = ParsedMinProducts(req.form),
                                !.maxDiscounted = ParsedMaxDiscounted(req.form),
                                !.discountType = req.form.discountType,
                                !.discountValue = ParsedDiscountValue(req.form),
                                !.targets = @ \o Rows(req)]]
              /\ requests' = [requests EXCEPT ![s] =
                                IF req.rule.shopifyDiscountId # NoId
                                THEN [updated EXCEPT !.pc = "platform"]
                                ELSE Reply(updated, "success")]
  /\ UNCHANGED discounts
  /\ UNCHANGED engine

\* Lines 140-173: discountAutomaticAppUpdate with the title and the
\* metafield; the response is not read. In the action of lines 616-710,
\* lines 676-707.
EditPlatform(s) ==
  /\ requests[s].kind \in Edits /\ requests[s].pc = "platform"
  /\ \E answer \in Answers :
       LET req == requests[s]
           d == req.rule.shopifyDiscountId
           called == Did(req, Effect("discountAutomaticAppUpdate", d, req.rule.shop, "", answer))
       IN  /\ answer = "ok" => Reaches(req.shop, d)
           /\ discounts' =
                IF answer = "ok"
                THEN [discounts EXCEPT ![d].title = req.form.name,
                                       ![d].blob = Configuration(req)]
                ELSE discounts
           /\ requests' = [requests EXCEPT ![s] =
                             IF answer = "throw" THEN Reply(called, "threw")
                             ELSE Reply(called, "success")]
  /\ UNCHANGED rules
  /\ UNCHANGED engine

\* ---- src/unnamed/part_004, action

\* Lines 11-22 and 35: await request.formData() and the fields of the form;
\* JSON.parse of the targets (line 22) or targets.map in the data of the
\* create (line 35) may throw.
CreateFirstFormData(s) ==
  /\ At(s, "createFirst", "formData")
  /\ requests' = [requests EXCEPT ![s] =
                    IF ParseThrows(@) \/ MapsThrow(@) THEN Reply(@, "threw")
                    ELSE [@ EXCEPT !.pc = "create"]]
  /\ UNCHANGED <<rules, discounts>>
  /\ UNCHANGED engine

\* Lines 25-43: prisma.discountRule.create before the platform is asked; the
\* row has no shopifyDiscountId. The create may throw, and then writes
\* nothing.
CreateFirstRule(s) ==
  /\ At(s, "createFirst", "create")
  /\ \E written \in BOOLEAN, createdAt \in Now :
       LET req == requests[s]
           r == NewRuleId(s)
       IN  IF ~written
           THEN /\ requests' = [requests EXCEPT ![s] = Reply(req, "threw")]
                /\ UNCHANGED rules
           ELSE /\ rules' = [rules EXCEPT ![r] = NewRule(req, NoId, createdAt)]
                /\ requests' = [requests EXCEPT ![s] =
                                  Did([req EXCEPT !.id = r, !.pc = "platform"],
                                      Effect("create", r, req.shop, "", "active"))]
  /\ UNCHANGED discounts
  /\ UNCHANGED engine

\* Lines 46-86: await admin.graphql of discountAutomaticAppCreate; the
\* platform creates the discount, answers with userErrors or with neither
\* userErrors nor a discount, or the call throws and leaves the row.
CreateFirstPlatform(s) ==
  /\ At(s, "createFirst", "platform")
  /\ \E answer \in Answers \cup {"noDiscountId"} :
       LET req == requests[s]
           d == NewDiscountId(s)
           called == Did(req, Effect("discountAutomaticAppCreate", d, req.shop, "", answer))
       IN  /\ discounts' =
                IF answer = "ok" THEN [discounts EXCEPT ![d] = NewDiscount(req)]
                ELSE discounts
           /\ requests' = [requests EXCEPT ![s] =
                             IF answer = "throw" THEN Reply(called, "threw")
                             ELSE [called EXCEPT !.answer = answer, !.pc = "platformJson"]]
  /\ UNCHANGED rules
  /\ UNCHANGED engine

\* Lines 88-105: await response.json(), which may throw; with a discountId
\* the action goes on to the update, with userErrors it ends with success:
\* false, with neither it ends with success: true and the row as created.
CreateFirstJson(s) ==
  /\ At(s, "createFirst", "platformJson")
  /\ \E read \in BOOLEAN :
       requests' = [requests EXCEPT ![s] =
                      CASE ~read -> Reply(@, "threw")
                        [] read /\ @.answer = "ok" ->
                             [@ EXCEPT !.discountId = NewDiscountId(s), !.pc = "update"]
                        [] read /\ @.answer = "userErrors" -> Reply(@, "failure")
                        [] OTHER -> Reply(@, "success")]
  /\ UNCHANGED <<rules, discounts>>
  /\ UNCHANGED engine

\* Lines 92-105: prisma.discountRule.update of the shopifyDiscountId by the
\* id of the row, which throws when the row is gone.
CreateFirstUpdate(s) ==
  /\ At(s, "createFirst", "update")
  /\ LET req == requests[s]
         row == rules[req.id]
     IN  IF ~row.present
         THEN /\ requests' = [requests EXCEPT ![s] = Reply(req, "threw")]
              /\ UNCHANGED rules
         ELSE /\ rules' = [rules EXCEPT ![req.id].shopifyDiscountId = req.discountId]
              /\ requests' = [requests EXCEPT ![s] =
                                Reply(Did(req, Effect("update", req.id, row.shop,
                                                      row.status, row.status)),
                                      "success")]
  /\ UNCHANGED discounts
  /\ UNCHANGED engine

CreateFirst(s) ==
  \/ CreateFirstFormData(s) \/ CreateFirstRule(s) \/ CreateFirstPlatform(s)
  \/ CreateFirstJson(s) \/ CreateFirstUpdate(s)

\* ---- src/unnamed/part_005, action

\* Lines 15-170: the steps of the create action, with the required and the
\* discounted targets.
CreateWithRoles(s) ==
  /\ requests[s].kind = "createRoles"
  /\ \/ CreateFormData(s) \/ CreateFunctions(s) \/ CreateFunction(s)
     \/ CreatePlatform(s) \/ CreatePlatformJson(s) \/ CreateRule(s)

\* ---- app.discounts.$id.tsx, action (lines 616-710)

\* The steps of the edit action, with targetType and targets.
EditOneList(s) ==
  /\ requests[s].kind = "editOld"
  /\ \/ EditFormData(s) \/ EditFind(s) \/ EditTargets(s) \/ EditUpdate(s)
     \/ EditPlatform(s)

\* ---- src/unnamed/part_003, loader and action

\* Lines 12-18: the rules of the shop are read and returned; the platform
\* is not asked.
ListFind(s) ==
  /\ At(s, "list", "find")
  /\ \E list \in findMany(requests[s].shop) :
       requests' = [requests EXCEPT ![s] =
                      Reply([@ EXCEPT !.discountRules = list, !.list = list], "listed")]
  /\ UNCHANGED <<rules, discounts>>
  /\ UNCHANGED engine

\* Lines 21-112: the delete and the toggle of app._index.tsx, lines 76-166.
ListAction(s) ==
  \/ IndexFormData(s)
  \/ ToggleFind(s) \/ TogglePlatform(s) \/ ToggleUpdate(s)
  \/ DeleteFind(s) \/ DeletePlatform(s) \/ DeleteRule(s)

\* The forms submitted to the edit action of lines 616-710.
EditOneListForms ==
  {[form EXCEPT !.minProducts = Str("3"), !.maxDiscounted = Str("1"),
                !.targets = IF @.text = "array"
                            THEN JsonArray(<<Picked("product", "B")>>) ELSE @] :
     form \in CreateForms}

\* The requests these versions of the routes receive.
EarlierArrivals ==
  {[NoRequest EXCEPT !.kind = "createFirst", !.shop = "s1", !.form = form] :
     form \in CreateForms}
  \cup {[NoRequest EXCEPT !.kind = "createRoles", !.shop = "s1", !.form = form] :
          form \in EditForms}
  \cup {[NoRequest EXCEPT !.kind = "editOld", !.shop = "s1", !.id = "r1", !.form = form] :
          form \in EditOneListForms}
  \cup {[NoRequest EXCEPT !.kind = "editOld", !.shop = "s2", !.id = "r1",
                          !.form = CreateForm]}
  \cup {[NoRequest EXCEPT !.kind = "list", !.shop = shop] : shop \in Shops}
  \cup {[NoRequest EXCEPT !.kind = kind, !.shop = "s1", !.id = id] :
          kind \in {"delete", "toggle"}, id \in {"r1", "r3"}}

EarlierStart(s) == Arrive(s, EarlierArrivals)

EarlierNext ==
  \E s \in Slots :
    \/ EarlierStart(s) \/ Authenticate(s)
    \/ CreateFirst(s) \/ CreateWithRoles(s) \/ EditOneList(s)
    \/ ListFind(s) \/ ListAction(s)

\* The earlier versions of the admin routes serving their requests.
EarlierSpec == AdminInit /\ [][EarlierNext]_vars

AdminNext ==
  \E s \in Slots :
    \/ Start(s) \/ Authenticate(s)
    \/ CreateFormData(s) \/ CreateFunctions(s) \/ CreateFunction(s)
    \/ CreatePlatform(s) \/ CreatePlatformJson(s) \/ CreateRule(s)
    \/ IndexFormData(s)
    \/ ToggleFind(s) \/ TogglePlatform(s) \/ ToggleUpdate(s)
    \/ DeleteFind(s) \/ DeletePlatform(s) \/ DeleteRule(s)
    \/ RedactRules(s) \/ RedactSessions(s)
    \/ LoaderFind(s) \/ LoaderQuery(s) \/ LoaderJson(s)
    \/ LoaderDelete(s) \/ LoaderRefetch(s)
    \/ EditFormData(s) \/ EditTargets(s) \/ EditFind(s) \/ EditUpdate(s)
    \/ EditPlatform(s)

\* The admin routes and the webhook serving their requests, each request at
\* its own await.
AdminSpec == AdminInit /\ [][AdminNext]_vars

\* ------------------------------------------------- vocabulary of the claims

\* run() has ended, by a return or by an exception.
Done == pc = "done"

\* The loop over the cart lines has run to its end.
Classified == pc \in {"gate", "select"} \/ (Done /\ outcome = "returned")

\* The fields of the configuration object as written.
Fields == input.configValue.fields

IsObject == input.configValue.text = "object"

Supplied(v) == v.t # "undefined"

SelectorTypes == {"all", "product", "collection"}

\* A selector as the data model has it: a known type and an array of ids.
WellShaped(sel) ==
  /\ sel.type.t = "string" /\ sel.type.s \in SelectorTypes
  /\ sel.ids.t = "array"

IdSet(sel) == {sel.ids.a[i] : i \in 1..Len(sel.ids.a)}

\* The selector selects the product: AllProducts always, the others by
\* membership in the id set.
Selects(sel, productId) ==
  \/ sel.type.s = "all"
  \/ sel.type.s \in {"product", "collection"} /\ productId \in IdSet(sel)

\* The two selectors are written out and there is no legacy pair.
ExplicitSelectors ==
  /\ IsObject
  /\ ~Supplied(Fields.targetType) /\ ~Supplied(Fields.targetIds)
  /\ WellShaped(Selector(Fields.requiredTargetType, Fields.requiredTargetIds))
  /\ WellShaped(Selector(Fields.discountedTargetType, Fields.discountedTargetIds))

ExplicitRequired == Selector(Fields.requiredTargetType, Fields.requiredTargetIds)
ExplicitDiscounted == Selector(Fields.discountedTargetType, Fields.discountedTargetIds)

\* Only the legacy pair is written, as the create action writes it.
LegacyShape ==
  /\ IsObject
  /\ ~Supplied(Fields.requiredTargetType) /\ ~Supplied(Fields.requiredTargetIds)
  /\ ~Supplied(Fields.discountedTargetType) /\ ~Supplied(Fields.discountedTargetIds)
  /\ WellShaped(Selector(Fields.targetType, Fields.targetIds))

LegacySelector == Selector(Fields.targetType, Fields.targetIds)

\* The threshold and the cap of the configuration, as numbers.
MinProducts == IF Supplied(Fields.minProducts) THEN Fields.minProducts.n ELSE 1
CapSet == Fields.maxDiscounted.t = "number" /\ Fields.maxDiscounted.n > 0
Capped(k) == IF CapSet THEN Min(k, Fields.maxDiscounted.n) ELSE k

\* The expanded units of the well-formed lines the selector selects, in cart
\* order.
RECURSIVE UnitsSelected(_, _)
UnitsSelected(cart, sel) ==
  IF cart = <<>> THEN <<>>
  ELSE LET line == cart[Len(cart)]
           before == UnitsSelected(SubSeq(cart, 1, Len(cart) - 1), sel)
       IN IF WellFormed(line) /\ Selects(sel, line.productId)
          THEN before \o Units(line, line.quantity) ELSE before

CountSelected(sel) == Len(UnitsSelected(input.cartLines, sel))

\* The result is NoDiscount.
NoDiscount == outcome = "returned" /\ result.discounts = <<>>

RECURSIVE SumQuantity(_)
SumQuantity(ts) ==
  IF ts = <<>> THEN 0
  ELSE ts[Len(ts)].quantity + SumQuantity(SubSeq(ts, 1, Len(ts) - 1))

\* The sum of the quantities over all targets of the result.
TotalDiscounted ==
  IF result.discounts = <<>> THEN 0 ELSE SumQuantity(result.discounts[1].targets)

\* The quantity the result discounts on the line.
DiscountedOn(lineId) ==
  IF result.discounts = <<>> THEN 0
  ELSE LET ts == result.discounts[1].targets
       IN SumQuantity(SelectSeq(ts, LAMBDA t : t.id = lineId))

\* ------------------------------------------------------------------ claims

\* The required selector of a configuration: the one written out, else the
\* legacy pair, else AllProducts.
RequiredSelector ==
  IF Supplied(Fields.requiredTargetType) THEN ExplicitRequired
  ELSE IF Supplied(Fields.targetType) THEN LegacySelector
  ELSE Selector(Str("all"), Arr(<<>>))

\* C1: when run() has ended on a configuration with a well-shaped required
\* selector, fewer units matching that selector than minProducts give
\* NoDiscount, and exactly minProducts such units with a non-empty
\* discountable set give a discount.
C1_ThresholdGate ==
  (Done /\ IsObject /\ WellShaped(RequiredSelector) /\ outcome = "returned") =>
    /\ CountSelected(RequiredSelector) < MinProducts => NoDiscount
    /\ (CountSelected(RequiredSelector) = MinProducts /\ discountableItems # <<>>)
         => ~NoDiscount

\* The two written selectors select the same products.
CoTargeted ==
  /\ ExplicitSelectors
  /\ \A p \in Products : Selects(ExplicitRequired, p) <=> Selects(ExplicitDiscounted, p)

\* The units the co-targeted rule discounts: the discountable units by
\* ascending price, the minProducts cheapest dropped, the rest up to the cap.
CoTargetedChoice ==
  LET sorted == Ordered(UnitsSelected(input.cartLines, ExplicitDiscounted), FALSE)
      rest == SubSeq(sorted, MinProducts + 1, Len(sorted))
  IN SubSeq(rest, 1, Capped(Len(rest)))

\* C2: on a co-targeted configuration the result discounts on every line
\* exactly that line's units among the remainder after the minProducts
\* cheapest units, cheapest first up to maxDiscounted.
C2_CoTargetedSkip ==
  (Done /\ CoTargeted /\ outcome = "returned") =>
    \A i \in 1..Len(input.cartLines) :
      DiscountedOn(input.cartLines[i].id)
        = Len(SelectSeq(CoTargetedChoice,
                        LAMBDA u : u.cartLineId = input.cartLines[i].id))

\* C3: on a co-targeted configuration whose gate passes the total discounted
\* quantity is max(0, min(|discountable| - minProducts, maxDiscounted if set)).
C3_CoTargetedCount ==
  (Done /\ CoTargeted /\ outcome = "returned"
     /\ CountSelected(ExplicitRequired) >= MinProducts) =>
    TotalDiscounted
      = Max(0, Capped(CountSelected(ExplicitDiscounted) - MinProducts))

\* The two written selectors have no product in common.
Disjoint ==
  /\ ExplicitSelectors
  /\ \A p \in Products : ~(Selects(ExplicitRequired, p) /\ Selects(ExplicitDiscounted, p))

\* C4: on disjoint selectors with the required count at least minProducts no
\* unit is exempted: the total discounted quantity is min(|discountable|,
\* maxDiscounted if set).
C4_DisjointNoSkip ==
  (Done /\ Disjoint /\ CountSelected(ExplicitRequired) >= MinProducts) =>
    /\ outcome = "returned"
    /\ TotalDiscounted = Capped(CountSelected(ExplicitDiscounted))

\* Witness of C4: required product A met, all units of product B discounted.
C4_Witness ==
  /\ Done /\ Disjoint
  /\ IdSet(ExplicitRequired) = {"A"} /\ IdSet(ExplicitDiscounted) = {"B"}
  /\ CountSelected(ExplicitRequired) = MinProducts
  /\ CountSelected(ExplicitRequired) >= 2
  /\ ~CapSet
  /\ CountSelected(ExplicitDiscounted) >= 2
  /\ TotalDiscounted = CountSelected(ExplicitDiscounted)

\* C5: on a configuration of the legacy shape whose pair names products, both
\* classifications select exactly the cart units of those products.
C5_LegacyClassification ==
  (Classified /\ LegacyShape /\ LegacySelector.type.s = "product"
     /\ IdSet(LegacySelector) # {}) =>
    /\ requiredProductCount = Num(CountSelected(LegacySelector))
    /\ Len(discountableItems) = CountSelected(LegacySelector)
    /\ \A k \in 1..Len(discountableItems) :
         Selects(LegacySelector, discountableItems[k].productId)

\* C6: no invocation of run() ends in an exception.
C6_NeverThrows == outcome # "threw"

\* C7: a metafield value that is missing, empty or unparseable gives
\* NoDiscount and no exception, whatever the cart.
C7_NoConfiguration ==
  (Done /\ input.configValue.text \in {"undefined", "empty", "invalid"}) => NoDiscount

\* Witness of C7: an unparseable value with a cart of two lines ended in
\* NoDiscount.
C7_Witness ==
  /\ Done /\ input.configValue.text = "invalid"
  /\ Len(input.cartLines) = 2 /\ \A i \in 1..2 : WellFormed(input.cartLines[i])
  /\ NoDiscount

\* The discounted selector's id set is empty or the selector is left out,
\* while the required selector is written with a non-empty id set.
MirrorCase ==
  /\ IsObject /\ ~Supplied(Fields.targetType)
  /\ WellShaped(ExplicitRequired)
  /\ ExplicitRequired.type.s \in {"product", "collection"}
  /\ IdSet(ExplicitRequired) # {}
  /\ \/ ExplicitDiscounted = NotSupplied
     \/ /\ WellShaped(ExplicitDiscounted)
        /\ ExplicitDiscounted.type.s \in {"product", "collection"}
        /\ IdSet(ExplicitDiscounted) = {}

\* C8: in the mirror case the discountable units are exactly the units of the
\* required selector.
C8_MirrorRequired ==
  (Classified /\ MirrorCase) =>
    discountableItems = UnitsSelected(input.cartLines, ExplicitRequired)

\* A selector by product or collection with an empty id set.
EmptySpecific(sel) ==
  WellShaped(sel) /\ sel.type.s \in {"product", "collection"} /\ IdSet(sel) = {}

\* The discounted selector of a configuration that writes one: the one
\* written out, else the legacy pair.
DiscountedSelector ==
  IF Supplied(Fields.discountedTargetType) THEN ExplicitDiscounted ELSE LegacySelector

\* C9: a selector by product or collection with an empty id set matches no
\* unit: when it is the discounted or the required selector of the
\* configuration, run() ends in NoDiscount whatever the cart.
C9_EmptySelectorSelectsNothing ==
  (Done /\ IsObject /\ outcome = "returned") =>
    /\ EmptySpecific(DiscountedSelector) => NoDiscount
    /\ EmptySpecific(RequiredSelector) => NoDiscount

\* C10: with maxDiscounted a positive integer the quantities of the targets
\* sum to at most maxDiscounted.
C10_CapInvariant ==
  (Done /\ IsObject /\ CapSet) => TotalDiscounted <= Fields.maxDiscounted.n

\* Witness of C10: more discountable units than the cap, and exactly the cap
\* discounted.
C10_Witness ==
  /\ Done /\ IsObject /\ CapSet
  /\ Len(discountableItems) > Fields.maxDiscounted.n
  /\ TotalDiscounted = Fields.maxDiscounted.n
  /\ Len(result.discounts[1].targets) >= 2

\* The units the selection stage discounts: the slice of the sorted
\* discountable units run() built its targets from.
SelectedUnits == discountedItems(discountableItems, config)

\* The number of selected units that belong to the line.
SelectedOn(lineId) ==
  Len(SelectSeq(SelectedUnits, LAMBDA u : u.cartLineId = lineId))

\* C11: in every non-empty result each cart line id appears in at most one
\* target, a target's quantity is the number of selected units of its line,
\* and the target quantities sum to the number of selected units.
C11_Grouping ==
  (Done /\ outcome = "returned" /\ result.discounts # <<>>) =>
    LET ts == result.discounts[1].targets IN
      /\ \A g, h \in 1..Len(ts) : ts[g].id = ts[h].id => g = h
      /\ \A g \in 1..Len(ts) : ts[g].quantity = SelectedOn(ts[g].id)
      /\ TotalDiscounted = Len(SelectedUnits)

\* Witness of C11: two lines discounted, one of them with both its units in
\* one target.
C11_Witness ==
  /\ Done /\ outcome = "returned" /\ result.discounts # <<>>
  /\ Len(result.discounts[1].targets) = 2
  /\ \E g \in 1..2 : result.discounts[1].targets[g].quantity = 2
  /\ Len(SelectedUnits) >= 3

\* C12: when no unit of the cart matches the discounted selector of the
\* configuration, run() ends in NoDiscount, whether or not the required
\* threshold is satisfied.
C12_EmptyDiscountable ==
  (Done /\ IsObject /\ outcome = "returned" /\ WellShaped(DiscountedSelector)
     /\ CountSelected(DiscountedSelector) = 0) =>
    NoDiscount

\* The number of candidate (discountable) units that belong to the line.
CandidatesOn(lineId) ==
  Len(SelectSeq(discountableItems, LAMBDA u : u.cartLineId = lineId))

\* The candidate units of the line the result leaves at full price.
ExcludedOn(lineId) == CandidatesOn(lineId) - DiscountedOn(lineId)

\* C13: the candidates are taken by ascending unit price with a stable
\* tie-break: no candidate left out is strictly cheaper than a discounted
\* one, and among lines of equal price a later line has a unit discounted
\* only when every candidate of each earlier line is discounted.
C13_SelectionOrder ==
  (Done /\ outcome = "returned" /\ result.discounts # <<>>) =>
    \A i, j \in 1..Len(input.cartLines) :
      LET li == input.cartLines[i]
          lj == input.cartLines[j]
      IN /\ (ExcludedOn(li.id) > 0 /\ DiscountedOn(lj.id) > 0)
              => Le(LinePrice(lj), LinePrice(li))
         /\ (i < j /\ LinePrice(li) = LinePrice(lj) /\ DiscountedOn(lj.id) > 0)
              => ExcludedOn(li.id) = 0

\* Witness of C13: two lines of equal price with two candidates each and a
\* cap of 2: the units of the first line are discounted, those of the second
\* are left out.
C13_Witness ==
  /\ Done /\ outcome = "returned" /\ Len(input.cartLines) = 2
  /\ LinePrice(input.cartLines[1]) = LinePrice(input.cartLines[2])
  /\ CandidatesOn("L1") = 2 /\ CandidatesOn("L2") = 2
  /\ DiscountedOn("L1") = 2 /\ ExcludedOn("L2") = 2

\* A malformed line: its merchandise is no ProductVariant, or it has no
\* product id.
Malformed(line) == line.typename # "ProductVariant" \/ line.productId = ""

\* The invocation on the same configuration and the cart without its
\* malformed lines.
WithoutMalformed ==
  [input EXCEPT !.cartLines = SelectSeq(@, LAMBDA line : ~Malformed(line))]

\* What the ended invocation gave: its result, or that it threw.
Ended == IF outcome = "threw" THEN Threw ELSE Returned(result)

\* C14: a malformed line adds nothing to the required count nor to the
\* discountable set, and run() ends on the cart as it ends on the cart
\* without its malformed lines.
C14_MalformedLines ==
  /\ pc \in {"gate", "select"} =>
       /\ \A i \in 1..Len(input.cartLines) :
            Malformed(input.cartLines[i]) => CandidatesOn(input.cartLines[i].id) = 0
       /\ requiredProductCount
            = Classify(config, WithoutMalformed.cartLines).requiredProductCount
  /\ Done => Ended \in run(WithoutMalformed)

\* Witness of C14: a CustomProduct line of product A is passed over and the
\* ProductVariant line of product A after it is discounted.
C14_Witness ==
  /\ Done /\ outcome = "returned" /\ ExplicitSelectors
  /\ IdSet(ExplicitRequired) = {"A"} /\ IdSet(ExplicitDiscounted) = {"A"}
  /\ Len(input.cartLines) = 2
  /\ input.cartLines[1].typename = "CustomProduct"
  /\ input.cartLines[1].productId = "A"
  /\ DiscountedOn("L1") = 0 /\ DiscountedOn("L2") = 1

\* C15: a non-empty result carries one discount with one value for all its
\* targets; the value is a percentage iff discountType is "percentage" and a
\* fixed amount otherwise, and its magnitude is discountValue as written,
\* unclamped.
C15_ValueResolution ==
  (Done /\ outcome = "returned" /\ result.discounts # <<>> /\ IsObject
     /\ Supplied(Fields.discountType) /\ Fields.discountValue.t = "number") =>
    /\ Len(result.discounts) = 1
    /\ result.discounts[1].value.kind \in {"percentage", "fixedAmount"}
    /\ result.discounts[1].value.kind = "percentage"
         <=> (Fields.discountType.t = "string" /\ Fields.discountType.s = "percentage")
    /\ result.discounts[1].value.amount = ToString(Fields.discountValue.n)

\* Witness of C15: discountType "fixed" with discountValue 5 gives the fixed
\* amount 5 on two targets.
C15_Witness ==
  /\ Done /\ outcome = "returned" /\ IsObject
  /\ Fields.discountType = Str("fixed") /\ Fields.discountValue = Num(5)
  /\ result.discounts # <<>>
  /\ Len(result.discounts[1].targets) = 2
  /\ result.discounts[1].value = [kind |-> "fixedAmount", amount |-> "5"]

\* The invocation on the same cart and the configuration with the field
\* written as v.
WithMinProducts(v) == [input EXCEPT !.configValue.fields.minProducts = v]
WithDiscountValue(v) == [input EXCEPT !.configValue.fields.discountValue = v]
WithDiscountType(v) == [input EXCEPT !.configValue.fields.discountType = v]

\* C16: run() ends on a configuration that leaves out minProducts,
\* discountValue or discountType as it ends on the same configuration with
\* minProducts 1, discountValue 0 or discountType "percentage" written.
C16_ConfigurationDefaults ==
  (Done /\ IsObject) =>
    /\ ~Supplied(Fields.minProducts) => Ended \in run(WithMinProducts(Num(1)))
    /\ ~Supplied(Fields.discountValue) => Ended \in run(WithDiscountValue(Num(0)))
    /\ ~Supplied(Fields.discountType) =>
         Ended \in run(WithDiscountType(Str("percentage")))

\* Witness of C16: the three fields are left out, the cart has no unit of
\* the required product A, and the threshold 1 gives NoDiscount.
C16_Witness ==
  /\ Done /\ IsObject /\ NoDiscount
  /\ ~Supplied(Fields.minProducts) /\ ~Supplied(Fields.discountValue)
  /\ ~Supplied(Fields.discountType)
  /\ IdSet(ExplicitRequired) = {"A"}
  /\ requiredProductCount = Num(0) /\ Len(discountableItems) = 2

\* C17: run() is deterministic and stateless: an invocation ends as every
\* earlier invocation on the same configuration string and cart ended,
\* whatever was invoked in between, and the module-level EMPTY_DISCOUNT is
\* as the module defined it.
C17_Deterministic ==
  /\ shared = EMPTY_DISCOUNT
  /\ \A k \in 1..Len(log) :
       (Done /\ log[k].input = input) =>
         (log[k].outcome = outcome /\ log[k].result = result)
  /\ \A j, k \in 1..Len(log) : log[j].input = log[k].input => log[j] = log[k]

\* Witness of C17: the third invocation repeats the first, which ended in
\* NoDiscount, after an invocation on another input that gave a discount.
C17_Witness ==
  /\ Done /\ Len(log) = 2
  /\ log[1].input = input /\ log[2].input # input
  /\ log[2].result.discounts # <<>>
  /\ NoDiscount

\* The place of a stage in Parse, Classify, Gate, Select, end.
StageRank(stage) ==
  CASE stage = "parse" -> 1
    [] stage = "classify" -> 2
    [] stage = "gate" -> 3
    [] stage = "select" -> 4
    [] stage = "done" -> 5

\* The result is final: NoDiscount, or one discount descriptor.
FinalResult ==
  /\ outcome = "returned"
  /\ result.discounts = <<>> \/ Len(result.discounts) = 1

\* C18: every invocation reaches a final result, NoDiscount or a descriptor,
\* after finitely many steps: until it has ended a next step can be taken,
\* every step leaves the stage for a later one (no stage is entered twice or
\* retried), and it ends with a final result.
C18_Termination ==
  /\ [](Done \/ ENABLED Next)
  /\ [][StageRank(pc') > StageRank(pc)]_vars
  /\ [](Done => FinalResult)

\* The units of the line among the first minProducts discountable units, the
\* ones the variant of DiscountFunctionSettings.jsx skips.
SkippedOn(lineId) ==
  Len(SelectSeq(Slice(discountableItems, Num(0), config.minProducts),
                LAMBDA u : u.cartLineId = lineId))

\* C19: in the variant of DiscountFunctionSettings.jsx the minProducts units
\* skipped are the cheapest discountable units: no discounted unit is
\* strictly cheaper than a skipped one, whatever the order of the cart lines.
C19_SkipsCheapest ==
  (Done /\ outcome = "returned" /\ result.discounts # <<>>) =>
    \A i, j \in 1..Len(input.cartLines) :
      (SkippedOn(input.cartLines[i].id) > 0
         /\ DiscountedOn(input.cartLines[j].id) > 0)
        => Le(LinePrice(input.cartLines[i]), LinePrice(input.cartLines[j]))

\* The units the single-selector run() of part_000 discounts, and the
\* eligible units it leaves at full price: the slice of the sorted eligible
\* items its targets are built from, and the items around the slice.
LegacyDiscountedUnits ==
  IF result.discounts = <<>> THEN <<>>
  ELSE discountedItemsLegacy(discountableItems, config)

LegacyFullPriceUnits ==
  LET first == ToNumber(config.minProducts)
      last == Add(first, Num(Len(LegacyDiscountedUnits)))
  IN Slice(discountableItems, Num(0), first)
       \o Slice(discountableItems, last, Num(Len(discountableItems)))

\* C20: in the single-selector run() the discounted units are the cheapest
\* eligible units: no eligible unit left at full price is strictly cheaper
\* than a discounted unit, also when maxDiscounted is smaller than the
\* number of units above the threshold.
C20_CheapestDiscounted ==
  (Done /\ outcome = "returned" /\ result.discounts # <<>>) =>
    /\ SumQuantity(result.discounts[1].targets) = Len(LegacyDiscountedUnits)
    /\ \A d \in 1..Len(LegacyDiscountedUnits), f \in 1..Len(LegacyFullPriceUnits) :
         Le(LegacyDiscountedUnits[d].price, LegacyFullPriceUnits[f].price)

\* The selector of the single-selector run(): the legacy pair, AllProducts
\* where it is left out.
EligibleSelector ==
  Selector(IF Supplied(Fields.targetType) THEN Fields.targetType ELSE Str("all"),
           IF Supplied(Fields.targetIds) THEN Fields.targetIds ELSE Arr(<<>>))

\* The eligible units of the cart.
EligibleCount == CountSelected(EligibleSelector)

\* C21: the single-selector run() gives no discount unless the eligible
\* units strictly exceed minProducts, and otherwise the total discounted
\* quantity is min(eligible - minProducts, maxDiscounted if set).
C21_AboveThreshold ==
  (Done /\ outcome = "returned" /\ IsObject /\ WellShaped(EligibleSelector)) =>
    /\ EligibleCount <= MinProducts => NoDiscount
    /\ EligibleCount > MinProducts =>
         TotalDiscounted = Capped(EligibleCount - MinProducts)

\* Witness of C21: two eligible units of product A above the threshold and a
\* cap of 1: one unit is discounted.
C21_Witness ==
  /\ Done /\ outcome = "returned" /\ IsObject
  /\ EligibleSelector = Selector(Str("product"), Arr(<<"A">>))
  /\ EligibleCount = MinProducts + 2
  /\ Fields.maxDiscounted = Num(1) /\ TotalDiscounted = 1


\* ------------------------------------------- vocabulary of the admin claims

\* The operations a request has made, writes and platform calls.
Ops(req) == {req.effects[i].op : i \in 1..Len(req.effects)}

\* The request made the first operation before the second.
Before(req, first, second) ==
  \E i, j \in 1..Len(req.effects) :
    i < j /\ req.effects[i].op = first /\ req.effects[j].op = second

\* C22: in the create action the rule is written only after the platform
\* has created the discount: a request answered with success:false has
\* written no rule, and a request that wrote a rule had asked the platform
\* first, holds the discountId it was given, and the rule carries that id,
\* never null.
C22_CreateAfterPlatform ==
  \A s \in Slots :
    LET req == requests[s] IN
      req.kind = "create" =>
        /\ req.reply = "failure" =>
             "create" \notin Ops(req) /\ ~rules[NewRuleId(s)].present
        /\ "create" \in Ops(req) =>
             /\ Before(req, "discountAutomaticAppCreate", "create")
             /\ req.discountId # NoId
             /\ discounts[req.discountId].shop = req.shop
             /\ rules[req.id].present =>
                  rules[req.id].shopifyDiscountId = req.discountId

\* One create request has written its rule with the id of its discount and
\* another was refused by the platform and answered success:false.
C22_Witness ==
  \E s, t \in Slots :
    /\ requests[s].kind = "create" /\ requests[s].reply = "success"
    /\ rules[requests[s].id].shopifyDiscountId = requests[s].discountId
    /\ discounts[requests[s].discountId].exists
    /\ requests[t].kind = "create" /\ requests[t].reply = "failure"
    /\ "discountAutomaticAppCreate" \in Ops(requests[t])


\* No request is in flight.
Quiet == \A s \in Slots : requests[s].pc \in {"idle", "done"}

\* The status updates a request has written.
Updates(req) ==
  {req.effects[i] : i \in {j \in 1..Len(req.effects) : req.effects[j].op = "update"}}

\* C23: for a rule with a shopifyDiscountId, once the toggle requests have
\* ended the status in the database is "active" exactly when the last
\* activate or deactivate call the platform answered for its discount was
\* activate, and every toggle answered with success:true has written a
\* status other than the one the row had, also when two toggles of the
\* rule interleave.
C23_ToggleMirrors ==
  /\ Quiet =>
       \A r \in Range(RuleIds) :
         (/\ rules[r].present
          /\ rules[r].shopifyDiscountId # NoId
          /\ discounts[rules[r].shopifyDiscountId].lastCall # "none") =>
           (rules[r].status = "active"
              <=> discounts[rules[r].shopifyDiscountId].lastCall
                    = "discountAutomaticActivate")
  /\ \A s \in Slots :
       (/\ requests[s].kind = "toggle"
        /\ requests[s].reply = "success"
        /\ requests[s].rule.shopifyDiscountId # NoId) =>
         /\ Updates(requests[s]) # {}
         /\ \A u \in Updates(requests[s]) : u.from # u.to


\* The loader's nodes query was answered.
Queried(req) ==
  /\ \E i \in 1..Len(req.effects) : req.effects[i].op = "nodes" /\ req.effects[i].to = "ok"
  /\ \E i \in 1..Len(req.effects) : req.effects[i].op = "json" /\ req.effects[i].to = "ok"

\* The loader's nodes query threw, or the reading of its response.
QueryThrew(req) ==
  \E i \in 1..Len(req.effects) :
    req.effects[i].op \in {"nodes", "json"} /\ req.effects[i].to = "throw"

\* The rows of the loader's first read that the platform did not return.
Orphans(req) ==
  {row \in Range(rulesToCheck(req.discountRules)) :
     row.shopifyDiscountId \notin req.existingIds}

\* The rules a request has deleted.
Deleted(req) ==
  {req.effects[i].id : i \in {j \in 1..Len(req.effects) : req.effects[j].op = "delete"}}

\* C24: a loader that has returned after its nodes query was answered has
\* left no rule of its first read whose shopifyDiscountId the platform did
\* not return, neither in the table nor in the list it returns, and has
\* deleted nothing else; a loader whose query threw has deleted nothing and
\* returns the list of its first read.
C24_LoaderSync ==
  \A s \in Slots :
    LET req == requests[s] IN
      (req.kind = "loader" /\ req.pc = "done") =>
        /\ Queried(req) =>
             /\ \A row \in Orphans(req) :
                  /\ rules[row.id].shopifyDiscountId # row.shopifyDiscountId
                  /\ row \notin Range(req.list)
             /\ Deleted(req) = {row.id : row \in Orphans(req)}
        /\ QueryThrew(req) =>
             Deleted(req) = {} /\ req.list = req.discountRules


\* C25: a delete request for a rule with a shopifyDiscountId asks the
\* platform to delete the discount before it deletes the row, and once it
\* has answered success:true the row is gone and the discount no longer
\* exists on the platform, whatever the platform answered.
C25_DeleteMirrors ==
  \A s \in Slots :
    LET req == requests[s] IN
      (req.kind = "delete" /\ req.rule.present /\ req.rule.shopifyDiscountId # NoId) =>
        /\ "delete" \in Ops(req) => Before(req, "discountAutomaticDelete", "delete")
        /\ req.reply = "success" =>
             /\ ~rules[req.id].present
             /\ ~discounts[req.rule.shopifyDiscountId].exists


\* The target ids of a role among the rows of a rule, in their order.
TargetIds(row, role) ==
  LET rows == SelectSeq(row.targets, LAMBDA t : t.role = role)
  IN  [i \in 1..Len(rows) |-> rows[i].targetId]

\* C26: once an edit of a rule with a shopifyDiscountId has answered
\* success:true, the configuration stored on its platform discount has the
\* minProducts, maxDiscounted, discountType, discountValue and target ids of
\* the row in the database, and the targets of the row are the submitted
\* required targets with role "required" followed by the submitted
\* discounted targets with role "discounted".
C26_EditMirrors ==
  \A s \in Slots :
    LET req == requests[s]
        row == rules[req.id]
        blob == discounts[req.rule.shopifyDiscountId].blob.fields
    IN  (/\ req.kind = "edit" /\ req.reply = "success"
         /\ req.rule.shopifyDiscountId # NoId /\ row.present) =>
          /\ blob.minProducts = row.minProducts
          /\ blob.maxDiscounted = row.maxDiscounted
          /\ blob.discountType = row.discountType
          /\ blob.discountValue = row.discountValue
          /\ blob.requiredTargetIds = Arr(TargetIds(row, "required"))
          /\ blob.discountedTargetIds = Arr(TargetIds(row, "discounted"))
          /\ TargetIds(row, "required") = Ids(ParsedTargets(req.form.requiredTargets))
          /\ TargetIds(row, "discounted") = Ids(ParsedTargets(req.form.discountedTargets))
          /\ Len(row.targets)
               = Len(ParsedTargets(req.form.requiredTargets))
                   + Len(ParsedTargets(req.form.discountedTargets))


\* The rule the request names is a row of the shop of its session.
OwnRule(req) == rules[req.id].present /\ rules[req.id].shop = req.shop

\* C27: an edit request that finds no rule with its id in the shop of its
\* session ends at once with the error "Discount rule not found", and that
\* step changes no rule, no target and no discount; a request that has
\* ended with this error has made no write and no platform call.
C27_EditNotFound ==
  /\ [][\A s \in Slots :
          (At(s, "edit", "find") /\ requests'[s] # requests[s] /\ ~OwnRule(requests[s])) =>
            /\ requests'[s].pc = "done"
            /\ requests'[s].reply = "Discount rule not found"
            /\ UNCHANGED <<rules, discounts>>]_vars
  /\ [](\A s \in Slots :
          (requests[s].kind = "edit" /\ requests[s].reply = "Discount rule not found") =>
            requests[s].pc = "done" /\ requests[s].effects = <<>>)

\* An edit from one shop, for a rule that is a row of the other shop, has
\* ended with the error and the row is as it was written.
C27_Witness ==
  \E s \in Slots :
    /\ requests[s].kind = "edit" /\ requests[s].shop = "s2" /\ requests[s].id = "r1"
    /\ requests[s].reply = "Discount rule not found"
    /\ rules["r1"] = InstalledRule("s1", "active", "d1")
    /\ discounts["d1"] = InstalledDiscount(rules["r1"])


\* C28: every write and every platform call of a delete or toggle request
\* is made for a rule of the shop of its session, whatever id it carries.
C28_ShopIsolation ==
  \A s \in Slots :
    LET req == requests[s] IN
      req.kind \in {"delete", "toggle"} =>
        \A i \in 1..Len(req.effects) : req.effects[i].shop = req.shop


\* The discounted selector of a configuration: the one written out, else the
\* legacy pair, else AllProducts.
DiscountedSelectorOrAll ==
  IF Supplied(Fields.discountedTargetType) THEN ExplicitDiscounted
  ELSE IF Supplied(Fields.targetType) THEN LegacySelector
  ELSE Selector(Str("all"), Arr(<<>>))

\* The target names a well-formed line of the cart that the selector
\* selects, with a quantity from 1 to the quantity of the line.
SoundTarget(t, sel) ==
  \E i \in 1..Len(input.cartLines) :
    LET line == input.cartLines[i] IN
      /\ line.id = t.id
      /\ ~Malformed(line)
      /\ Selects(sel, line.productId)
      /\ t.quantity >= 1 /\ t.quantity <= line.quantity

\* C29: a result of run() that is not empty has at least one target, and each
\* of its targets names a well-formed ProductVariant line of the cart that the
\* discounted selector selects, with a quantity of at least 1 and at most the
\* quantity of the line.
C29_TargetSoundness ==
  (Done /\ outcome = "returned" /\ IsObject /\ WellShaped(DiscountedSelectorOrAll)
     /\ result.discounts # <<>>) =>
    /\ Len(result.discounts[1].targets) >= 1
    /\ \A k \in 1..Len(result.discounts[1].targets) :
         SoundTarget(result.discounts[1].targets[k], DiscountedSelectorOrAll)


\* maxDiscounted is absent, null or 0.
NoCap == Fields.maxDiscounted \in {Undefined, Null, Num(0)}

\* The threshold is met: run() has gone past its gate.
GatePassed ==
  Done /\ outcome = "returned" /\ IsObject /\ input.cartLines # <<>>
    /\ ~NotEnoughRequired(requiredProductCount, config)

\* C30: with maxDiscounted absent, null or 0 run() applies no cap, every
\* candidate unit is discounted; fewer units than the candidates are
\* discounted only under a positive maxDiscounted, and then exactly
\* maxDiscounted of them.
C30_AbsentCap ==
  GatePassed =>
    /\ NoCap => TotalDiscounted = Len(discountableItems)
    /\ TotalDiscounted < Len(discountableItems) =>
         CapSet /\ TotalDiscounted = Fields.maxDiscounted.n

\* A cap of 0 on a cart with two candidate units: both are discounted.
C30_Witness ==
  /\ GatePassed
  /\ Fields.maxDiscounted = Num(0)
  /\ Len(discountableItems) >= 2
  /\ TotalDiscounted = Len(discountableItems)

====
